---- MODULE Spec2Model ----
(***************************************************************************)
(* State-machine models of the DP models, validators and the history       *)
(* driver of didp-rust-models.  Every problem has its own specification    *)
(* (Init/Next pair) over the shared variables below.                       *)
(***************************************************************************)
EXTENDS Integers, Sequences, FiniteSets, TLC

VARIABLES
    instance,     \* the problem instance as read from the input file
    args,         \* the command-line arguments that matter to the model
    model,        \* the data precomputed by the model's constructor
    state,        \* the DP state at the end of the current path
    transitions,  \* the transition labels of the current path
    cost,         \* the accumulated cost (g) of the current path
    verdict,      \* the validator's answer once main has called it
    pc,           \* the position in main, or in the history driver
    file,         \* the history file: the lines it holds
    dirty,        \* whether a line was written since the last flush
    received,     \* the search_next results the driver has received
    returned,     \* what the driver returned, once it has
    solver        \* the solver the driver calls: its open set, registry, incumbent

dpVars == <<instance, args, model, state, transitions, cost, verdict>>
drvVars == <<file, dirty, received, returned, solver>>
vars == <<dpVars, pc, drvVars>>

(***************************************************************************)
(* Option<T>: None is the empty sequence, Some(x) the one-element one.     *)
(***************************************************************************)
None == <<>>
Some(x) == <<x>>
IsSome(o) == Len(o) = 1
Unwrap(o) == o[1]

Max(x, y) == IF x >= y THEN x ELSE y
Min(x, y) == IF x <= y THEN x ELSE y

RECURSIVE SumOver(_, _)
\* sum of f[i] over the finite set S (Iterator::sum)
SumOver(S, f) ==
    IF S = {} THEN 0
    ELSE LET i == CHOOSE x \in S : TRUE IN f[i] + SumOver(S \ {i}, f)

\* the ascending enumeration of a finite set of integers (FixedBitSet::ones)
RECURSIVE Ones(_)
Ones(S) ==
    IF S = {} THEN <<>>
    ELSE LET m == CHOOSE x \in S : \A y \in S : x <= y IN <<m>> \o Ones(S \ {m})

\* the driver's variables in the specifications of the DP models
DrvIdle ==
    file = <<>> /\ dirty = FALSE /\ received = <<>> /\ returned = None /\ solver = None

(***************************************************************************)
(*                               TSPTW                                     *)
(***************************************************************************)
\* bounds of the enumerated TSPTW instances
TsptwMaxNodes == 3
TsptwMaxDist == 2
TsptwMaxTime == 5

TsptwN(inst) == Cardinality(DOMAIN inst.a)

\* the distance matrices read_from_file produces: None on the diagonal
TsptwMatrices(n) ==
    { c \in [0..(n - 1) -> [0..(n - 1) -> {None} \cup {Some(d) : d \in 1..TsptwMaxDist}]] :
        \A i, j \in 0..(n - 1) : (c[i][j] = None) <=> (i = j) }

\* time windows [a, b] with a <= b
TsptwWindows ==
    { [a |-> 0, b |-> TsptwMaxTime], [a |-> 0, b |-> 2], [a |-> 3, b |-> TsptwMaxTime] }

\* the instances with n nodes
TsptwInstances(n) ==
    { [a |-> [i \in 0..(n - 1) |-> w[i].a],
       b |-> [i \in 0..(n - 1) |-> w[i].b],
       c |-> c] :
      w \in [0..(n - 1) -> TsptwWindows], c \in TsptwMatrices(n) }

\* Instance::delete_edges: the matrix after the pass
delete_edges_c(inst, expensive_detection) ==
    LET n == TsptwN(inst) IN
    [i \in 0..(n - 1) |-> [j \in 0..(n - 1) |->
        IF IsSome(inst.c[i][j])
           /\ (inst.a[i] + Unwrap(inst.c[i][j]) > inst.b[j]
               \/ (expensive_detection /\ i # 0 /\ j # 0
                   /\ \E k \in 1..(n - 1) : inst.b[i] < inst.a[k] /\ inst.b[k] < inst.a[j]))
        THEN None ELSE inst.c[i][j]]]

\* Instance::delete_edges: <<instance after the pass, whether an edge was deleted>>
delete_edges(inst, expensive_detection) ==
    LET c2 == delete_edges_c(inst, expensive_detection)
    IN <<[inst EXCEPT !.c = c2], c2 # inst.c>>

RECURSIVE reduce_from(_, _)
\* Instance::reduce_time_windows, the loop body for k, k+1, ..., n-1 in this order
reduce_from(inst, k) ==
    LET n == TsptwN(inst)
        In == { i \in 0..(n - 1) : IsSome(inst.c[i][k]) }
        minIn == LET S == { inst.a[i] + Unwrap(inst.c[i][k]) : i \in In } \cup {inst.b[k]}
                 IN CHOOSE x \in S : \A y \in S : x <= y
        maxIn == LET S == { inst.b[i] + Unwrap(inst.c[i][k]) : i \in In } \cup {inst.a[k]}
                 IN CHOOSE x \in S : \A y \in S : x >= y
        a1 == Max(inst.a[k], minIn)
        b1 == Min(inst.b[k], maxIn)
        Out == { j \in 0..(n - 1) : IsSome(inst.c[k][j]) }
        minOut == LET S == { inst.a[j] - Unwrap(inst.c[k][j]) : j \in Out } \cup {b1}
                  IN CHOOSE x \in S : \A y \in S : x <= y
        maxOut == LET S == { inst.b[j] - Unwrap(inst.c[k][j]) : j \in Out } \cup {a1}
                  IN CHOOSE x \in S : \A y \in S : x >= y
        a2 == Max(a1, minOut)
        b2 == Min(b1, maxOut)
    IN IF k >= n THEN inst
       ELSE reduce_from([inst EXCEPT !.a[k] = a2, !.b[k] = b2], k + 1)

\* Instance::reduce_time_windows: <<instance after the pass, whether a window changed>>
reduce_time_windows(inst) ==
    LET r == reduce_from(inst, 1) IN <<r, r.a # inst.a \/ r.b # inst.b>>

RECURSIVE simplify_loop(_, _)
\* while self.reduce_time_windows() && self.delete_edges(expensive_detection) {}
simplify_loop(inst, expensive_detection) ==
    LET r == reduce_time_windows(inst) IN
    IF ~r[2] THEN r[1]
    ELSE LET d == delete_edges(r[1], expensive_detection) IN
         IF ~d[2] THEN d[1] ELSE simplify_loop(d[1], expensive_detection)

\* Instance::simplify
simplify(inst, expensive_detection) ==
    simplify_loop(delete_edges(inst, expensive_detection)[1], expensive_detection)

\* main: match args.simplification_level
apply_simplification(inst, level) ==
    CASE level = "None" -> inst
      [] level = "Cheap" -> simplify(inst, FALSE)
      [] level = "Expensive" -> simplify(inst, TRUE)

RECURSIVE shortest_from(_, _, _)
\* Floyd-Warshall over intermediate vertices k, k+1, ..., n-1
shortest_from(d, k, n) ==
    IF k >= n THEN d
    ELSE shortest_from(
           [i \in 0..(n - 1) |-> [j \in 0..(n - 1) |->
              IF IsSome(d[i][k]) /\ IsSome(d[k][j])
                 /\ (~IsSome(d[i][j]) \/ Unwrap(d[i][k]) + Unwrap(d[k][j]) < Unwrap(d[i][j]))
              THEN Some(Unwrap(d[i][k]) + Unwrap(d[k][j]))
              ELSE d[i][j]]],
           k + 1, n)

\* the least of the Some entries of a sequence of options, None when there is none
\* (the items of take_column_wise_min_with_option and take_row_wise_min_with_option)
min_with_option(S) ==
    IF S = {} THEN None ELSE Some(CHOOSE x \in S : \A y \in S : x <= y)

\* Tsptw::new: c_star, the shortest path costs over the edges that do not enter the
\* depot; min_to and min_from, the cheapest edge into and out of every node, still
\* wrapped: new unwraps them
Tsptw_new(inst) ==
    LET n == TsptwN(inst)
        c == [i \in 0..(n - 1) |-> [j \in 0..(n - 1) |-> IF j = 0 THEN None ELSE inst.c[i][j]]]
    IN [c_star |-> shortest_from(c, 0, n),
        min_to |-> [j \in 0..(n - 1) |->
                      min_with_option({ Unwrap(inst.c[i][j]) : i \in { i \in 0..(n - 1) : IsSome(inst.c[i][j]) } })],
        min_from |-> [i \in 0..(n - 1) |->
                      min_with_option({ Unwrap(inst.c[i][j]) : j \in { j \in 0..(n - 1) : IsSome(inst.c[i][j]) } })]]

\* Tsptw::new: .map(|x| x.unwrap()) panics on a node without an edge in or out
Tsptw_new_panics(inst) ==
    LET m == Tsptw_new(inst) IN
    \E i \in DOMAIN m.min_to : m.min_to[i] = None \/ m.min_from[i] = None

\* Tsptw::check_feasibility
Tsptw_check_feasibility(inst, m, s) ==
    \A next \in s.unvisited :
        /\ IsSome(m.c_star[s.current][next])
        /\ s.time + Unwrap(m.c_star[s.current][next]) <= inst.b[next]

\* Tsptw::get_target
Tsptw_get_target(inst) ==
    [unvisited |-> 1..(TsptwN(inst) - 1), current |-> 0, time |-> 0]

\* a visit whose weight is the travelled distance in both modes
Tsptw_visit_distance(inst, m, minimize_makespan, s, next) ==
    IF ~IsSome(inst.c[s.current][next]) THEN None
    ELSE LET distance == Unwrap(inst.c[s.current][next])
             time == Max(s.time + distance, inst.a[next])
             successor == [unvisited |-> s.unvisited \ {next}, current |-> next, time |-> time]
         IN IF time > inst.b[next] THEN None
            ELSE IF ~Tsptw_check_feasibility(inst, m, successor) THEN None
            ELSE Some(<<successor, distance, next>>)

\* the successor get_successors builds for the customer next, None when it is filtered out
Tsptw_visit(inst, m, minimize_makespan, s, next) ==
    IF ~IsSome(inst.c[s.current][next]) THEN None
    ELSE LET distance == Unwrap(inst.c[s.current][next])
             time == Max(s.time + distance, inst.a[next])
             successor == [unvisited |-> s.unvisited \ {next}, current |-> next, time |-> time]
         IN IF time > inst.b[next] THEN None
            ELSE IF ~Tsptw_check_feasibility(inst, m, successor) THEN None
            ELSE Some(<<successor, IF minimize_makespan THEN time - s.time ELSE distance, next>>)

\* Tsptw::get_successors (tsptw_rpid): the sequence of <<successor, weight, label>>
Tsptw_get_successors(inst, m, minimize_makespan, s) ==
    IF s.unvisited = {}
    THEN IF IsSome(inst.c[s.current][0])
            /\ s.time + Unwrap(inst.c[s.current][0]) <= inst.b[0]
         THEN << <<[unvisited |-> s.unvisited, current |-> 0,
                    time |-> s.time + Unwrap(inst.c[s.current][0])],
                   Unwrap(inst.c[s.current][0]), 0>> >>
         ELSE <<>>
    ELSE LET order == Ones(s.unvisited)
             visits == [k \in 1..Len(order) |->
                          Tsptw_visit(inst, m, minimize_makespan, s, order[k])]
             kept == SelectSeq(visits, IsSome)
         IN [k \in 1..Len(kept) |-> Unwrap(kept[k])]

\* Tsptw::get_base_cost (tsptw_rpid)
Tsptw_get_base_cost(s) ==
    IF s.unvisited = {} /\ s.current = 0 THEN Some(0) ELSE None

RECURSIVE validate_from(_, _, _, _, _, _, _)
\* Instance::validate_inner: the loop over tour followed by the depot; <<ok, time, cost>>
validate_from(inst, rest, time, current, visited, recomputed_cost, n) ==
    IF rest = <<>> THEN <<TRUE, time, recomputed_cost>>
    ELSE LET next == Head(rest) IN
         IF next >= n THEN <<FALSE, time, recomputed_cost>>
         ELSE IF next \in visited THEN <<FALSE, time, recomputed_cost>>
         ELSE IF ~IsSome(inst.c[current][next]) THEN <<FALSE, time, recomputed_cost>>
         ELSE LET distance == Unwrap(inst.c[current][next])
                  time2 == Max(time + distance, inst.a[next])
              IN IF time2 > inst.b[next] THEN <<FALSE, time2, recomputed_cost + distance>>
                 ELSE validate_from(inst, Tail(rest), time2, next, visited \cup {next},
                                    recomputed_cost + distance, n)

\* Instance::validate_inner
validate_inner(inst, tour, c, minimize_makespan) ==
    IF Len(tour) # TsptwN(inst) - 1 THEN FALSE
    ELSE LET r == validate_from(inst, tour \o <<0>>, 0, 0, {}, 0, TsptwN(inst)) IN
         /\ r[1]
         /\ IF minimize_makespan THEN c = r[2] ELSE c = r[3]

\* main (tsptw_rpid): the test that prints "The solution is valid."
Tsptw_main_valid(inst, minimize_makespan, tour, c) ==
    \/ (minimize_makespan /\ validate_inner(inst, tour, c, TRUE))
    \/ validate_inner(inst, tour, c, FALSE)

TsptwInit ==
    /\ \E n \in 2..TsptwMaxNodes : instance \in TsptwInstances(n)
    /\ args \in [minimize_makespan : BOOLEAN, simplification_level : {"None", "Cheap", "Expensive"}]
    /\ model = None
    /\ state = None
    /\ transitions = <<>>
    /\ cost = 0
    /\ verdict = None
    /\ pc = "read"
    /\ DrvIdle

\* main: simplify the instance and build the model
TsptwPrepare ==
    /\ pc = "read"
    /\ DrvIdle
    /\ LET inst == apply_simplification(instance, args.simplification_level) IN
       /\ instance' = inst
       /\ model' = Tsptw_new(inst)
       /\ state' = Tsptw_get_target(inst)
       /\ pc' = IF Tsptw_new_panics(inst) THEN "panic" ELSE "search"
    /\ UNCHANGED <<args, transitions, cost, verdict, drvVars>>

\* one transition of the search: a successor of the current state is followed
TsptwTransition ==
    /\ pc = "search"
    /\ LET succs == Tsptw_get_successors(instance, model, args.minimize_makespan, state) IN
       \E k \in 1..Len(succs) :
          /\ state' = succs[k][1]
          /\ cost' = cost + succs[k][2]
          /\ transitions' = Append(transitions, succs[k][3])
    /\ UNCHANGED <<instance, args, model, verdict, pc, drvVars>>

\* the path ends in a base case: main validates the solution
TsptwValidate ==
    /\ pc = "search"
    /\ IsSome(Tsptw_get_base_cost(state))
    /\ cost' = cost + Unwrap(Tsptw_get_base_cost(state))
    /\ verdict' = Some(Tsptw_main_valid(instance, args.minimize_makespan, transitions, cost'))
    /\ pc' = "done"
    /\ UNCHANGED <<instance, args, model, state, transitions, drvVars>>

TsptwNext == TsptwPrepare \/ TsptwTransition \/ TsptwValidate

TsptwSpec == TsptwInit /\ [][TsptwNext]_vars

\* C1: every complete path of the tsptw_rpid model is accepted by the validator
\* main calls with the path's labels and cost.
C1_TsptwRpidPathValid == pc = "done" => verdict = Some(TRUE)

(***************************************************************************)
(*                          Talent scheduling                              *)
(***************************************************************************)
\* bounds of the enumerated talent-scheduling instances
TsMaxScenes == 3
TsMaxActors == 2
TsMaxCost == 2

\* Instances as read_from_file builds them: actors are numbered from 1 here,
\* scenes from 0 as in the source; actor_to_scenes[i] is the set of scenes of actor i.
TsInstances(n, m) ==
    [actor_to_scenes : [1..m -> SUBSET (0..(n - 1))],
     actor_to_cost : [1..m -> 1..TsMaxCost],
     scene_to_duration : [0..(n - 1) -> 1..TsMaxCost]]

TsScenes(inst) == DOMAIN inst.scene_to_duration

\* larger instances, on which the rules of get_successors have a choice to cut:
\* every actor plays in two scenes at least, and either the actors all cost 1 or
\* the scenes all last 1
TsLargeScenes == 4
TsLargeActors == 3

TsLargeInstances ==
    LET casts == [1..TsLargeActors ->
                     {S \in SUBSET (0..(TsLargeScenes - 1)) : Cardinality(S) >= 2}]
    IN [actor_to_scenes : casts,
        actor_to_cost : [1..TsLargeActors -> {1}],
        scene_to_duration : [0..(TsLargeScenes - 1) -> 1..TsMaxCost]]
       \cup [actor_to_scenes : casts,
             actor_to_cost : [1..TsLargeActors -> 1..TsMaxCost],
             scene_to_duration : [0..(TsLargeScenes - 1) -> {1}]]

\* Instance::create_scene_to_actors
create_scene_to_actors(inst) ==
    [scene \in TsScenes(inst) |->
        { actor \in DOMAIN inst.actor_to_cost : scene \in inst.actor_to_scenes[actor] }]

\* the summed cost of a set of actors
TsActorsCost(inst, actors) == SumOver(actors, inst.actor_to_cost)

\* Instance::eliminate_single_scene_actors: None, or Some(<<new instance, single_actor_cost>>)
eliminate_single_scene_actors(inst) ==
    LET actors == DOMAIN inst.actor_to_cost
        single == { i \in actors : Cardinality(inst.actor_to_scenes[i]) = 1 }
        single_actor_cost ==
            SumOver(single,
                    [i \in single |->
                        inst.actor_to_cost[i]
                        * inst.scene_to_duration[CHOOSE sc \in inst.actor_to_scenes[i] : TRUE]])
        keep == SelectSeq(Ones(actors), LAMBDA i : Cardinality(inst.actor_to_scenes[i]) > 1)
    IN IF single = {} THEN None
       ELSE Some(<<[actor_to_scenes |-> [k \in 1..Len(keep) |-> inst.actor_to_scenes[keep[k]]],
                    actor_to_cost |-> [k \in 1..Len(keep) |-> inst.actor_to_cost[keep[k]]],
                    scene_to_duration |-> inst.scene_to_duration],
                   single_actor_cost>>)

\* Instance::concatenate_duplicate_scenes: None, or Some(<<new instance, new_scene_to_scenes>>)
concatenate_duplicate_scenes(inst) ==
    LET scene_to_actors == create_scene_to_actors(inst)
        scenes == TsScenes(inst)
        \* the scenes that are not merged into an earlier one, in increasing order
        firsts == Ones({ i \in scenes : \A j \in scenes : j < i => scene_to_actors[j] # scene_to_actors[i] })
        new_scene_to_scenes ==
            [index \in 0..(Len(firsts) - 1) |->
                Ones({ j \in scenes : scene_to_actors[j] = scene_to_actors[firsts[index + 1]] })]
        scene_to_new_scene ==
            [j \in scenes |-> CHOOSE index \in DOMAIN new_scene_to_scenes :
                                 scene_to_actors[j] = scene_to_actors[firsts[index + 1]]]
        new_scene_to_duration ==
            [index \in DOMAIN new_scene_to_scenes |->
                SumOver({ new_scene_to_scenes[index][k] : k \in 1..Len(new_scene_to_scenes[index]) },
                        inst.scene_to_duration)]
    IN IF Len(firsts) = Cardinality(scenes) THEN None
       ELSE Some(<<[actor_to_scenes |->
                       [i \in DOMAIN inst.actor_to_cost |->
                           { scene_to_new_scene[sc] : sc \in inst.actor_to_scenes[i] }],
                    actor_to_cost |-> inst.actor_to_cost,
                    scene_to_duration |-> new_scene_to_duration],
                   new_scene_to_scenes>>)

RECURSIVE TsFlatten(_, _)
\* scenes.into_iter().flat_map(|i| scene_to_originals[i].iter().cloned()).collect()
TsFlatten(scenes, scene_to_originals) ==
    IF scenes = <<>> THEN <<>>
    ELSE scene_to_originals[Head(scenes)] \o TsFlatten(Tail(scenes), scene_to_originals)

RECURSIVE simplify_rounds(_, _, _)
\* Instance::simplify: one pass of the loop and the passes after it
simplify_rounds(inst, single_actor_cost, scene_to_originals) ==
    LET e == eliminate_single_scene_actors(inst)
        inst1 == IF IsSome(e) THEN Unwrap(e)[1] ELSE inst
        cost1 == IF IsSome(e) THEN Unwrap(e)[2] ELSE single_actor_cost
        c == concatenate_duplicate_scenes(inst1)
        inst2 == IF IsSome(c) THEN Unwrap(c)[1] ELSE inst1
        orig2 == IF IsSome(c)
                 THEN [index \in DOMAIN Unwrap(c)[2] |->
                          TsFlatten(Unwrap(c)[2][index], scene_to_originals)]
                 ELSE scene_to_originals
    IN IF ~IsSome(e) /\ ~IsSome(c) THEN <<inst, single_actor_cost, scene_to_originals>>
       ELSE simplify_rounds(inst2, cost1, orig2)

\* Instance::simplify
Ts_simplify(inst) == simplify_rounds(inst, 0, [i \in TsScenes(inst) |-> <<i>>])

\* TalentScheduling::from
TalentScheduling_from(inst) ==
    LET s == Ts_simplify(inst)
        simplified_instance == s[1]
        scene_to_actors == create_scene_to_actors(simplified_instance)
    IN [simplified_instance |-> simplified_instance,
        single_actor_cost |-> s[2],
        scene_to_originals |-> s[3],
        scene_to_actors |-> scene_to_actors,
        scene_to_base_cost |->
            [i \in TsScenes(simplified_instance) |->
                TsActorsCost(simplified_instance, scene_to_actors[i])
                * simplified_instance.scene_to_duration[i]],
        scene_to_subsumption_candidates |->
            [i \in TsScenes(simplified_instance) |->
                { j \in TsScenes(simplified_instance) :
                    i # j /\ scene_to_actors[i] \subseteq scene_to_actors[j] }]]

\* TalentScheduling::reconstruct_solution
Ts_reconstruct_solution(m, solution) == TsFlatten(solution, m.scene_to_originals)

\* TalentScheduling::reconstruct_cost
Ts_reconstruct_cost(m, c) == c + m.single_actor_cost

\* TalentScheduling::get_target
Ts_get_target(m) == TsScenes(m.simplified_instance)

\* a subsumption rule that skips a scene as soon as a remaining scene holds all its
\* actors, whoever has come already
Ts_get_successors_eager(m, remaining) ==
    LET skipped(i) == \E j \in m.scene_to_subsumption_candidates[i] : j \in remaining
        kept == SelectSeq(Ones(remaining), LAMBDA i : ~skipped(i))
    IN IF remaining = {} THEN <<>>
       ELSE [k \in 1..Len(kept) |->
                <<remaining \ {kept[k]},
                  m.simplified_instance.scene_to_duration[kept[k]]
                  * TsActorsCost(m.simplified_instance, m.scene_to_actors[kept[k]]),
                  kept[k]>>]

\* TalentScheduling::get_successors: the sequence of <<successor, weight, label>>
Ts_get_successors(m, remaining) ==
    LET scenes == TsScenes(m.simplified_instance)
        standby0 == UNION { m.scene_to_actors[i] : i \in remaining }
        came == UNION { m.scene_to_actors[i] : i \in scenes \ remaining }
        standby == standby0 \cap came
        forced == { i \in remaining : m.scene_to_actors[i] = standby }
        skipped(i) ==
            \E j \in m.scene_to_subsumption_candidates[i] :
                j \in remaining /\ m.scene_to_actors[j] \subseteq (came \cup m.scene_to_actors[i])
        weight(i) ==
            m.simplified_instance.scene_to_duration[i]
            * TsActorsCost(m.simplified_instance, m.scene_to_actors[i] \cup standby)
        kept == SelectSeq(Ones(remaining), LAMBDA i : ~skipped(i))
    IN IF forced # {}
       THEN LET i == Ones(forced)[1]
            IN << <<remaining \ {i}, m.scene_to_base_cost[i], i>> >>
       ELSE [k \in 1..Len(kept) |-> <<remaining \ {kept[k]}, weight(kept[k]), kept[k]>>]

\* TalentScheduling::get_base_cost
Ts_get_base_cost(remaining) == IF remaining = {} THEN Some(0) ELSE None

RECURSIVE Ts_validate_from(_, _, _, _, _)
\* Instance::validate: the loop over scenes[i..]; <<ok, recomputed_cost>>
Ts_validate_from(inst, rest, on_location_actors, shot, recomputed_cost) ==
    IF rest = <<>> THEN <<TRUE, recomputed_cost>>
    ELSE LET scene == Head(rest)
             scene_to_actors == create_scene_to_actors(inst)
         IN IF scene \notin TsScenes(inst) THEN <<FALSE, recomputed_cost>>
            ELSE IF scene \in shot THEN <<FALSE, recomputed_cost>>
            ELSE LET on_location == on_location_actors \cup scene_to_actors[scene]
                     working_actors ==
                         UNION { scene_to_actors[Tail(rest)[k]] : k \in 1..Len(Tail(rest)) }
                 IN Ts_validate_from(inst, Tail(rest), on_location \cap working_actors,
                                     shot \cup {scene},
                                     recomputed_cost
                                     + inst.scene_to_duration[scene] * TsActorsCost(inst, on_location))

\* Instance::validate
Ts_validate(inst, scenes, c) ==
    IF Len(scenes) # Cardinality(TsScenes(inst)) THEN FALSE
    ELSE LET r == Ts_validate_from(inst, scenes, {}, {}, 0) IN r[1] /\ r[2] = c

TsInit ==
    /\ \/ \E n \in 1..TsMaxScenes, m \in 1..TsMaxActors : instance \in TsInstances(n, m)
       \/ instance \in TsLargeInstances
    /\ args = None
    /\ model = None
    /\ state = None
    /\ transitions = <<>>
    /\ cost = 0
    /\ verdict = None
    /\ pc = "read"
    /\ DrvIdle

\* main: TalentScheduling::from(instance) and the target state
TsPrepare ==
    /\ pc = "read"
    /\ DrvIdle
    /\ model' = TalentScheduling_from(instance)
    /\ state' = Ts_get_target(model')
    /\ pc' = "search"
    /\ UNCHANGED <<instance, args, transitions, cost, verdict, drvVars>>

\* one transition of the search: a successor of the current state is followed
TsTransition ==
    /\ pc = "search"
    /\ LET succs == Ts_get_successors(model, state) IN
       \E k \in 1..Len(succs) :
          /\ state' = succs[k][1]
          /\ cost' = cost + succs[k][2]
          /\ transitions' = Append(transitions, succs[k][3])
    /\ UNCHANGED <<instance, args, model, verdict, pc, drvVars>>

\* the path ends in a base case: main reconstructs and validates the solution
TsValidate ==
    /\ pc = "search"
    /\ IsSome(Ts_get_base_cost(state))
    /\ cost' = cost + Unwrap(Ts_get_base_cost(state))
    /\ verdict' = Some(Ts_validate(instance, Ts_reconstruct_solution(model, transitions),
                                   Ts_reconstruct_cost(model, cost')))
    /\ pc' = "done"
    /\ UNCHANGED <<instance, args, model, state, transitions, drvVars>>

TsNext == TsPrepare \/ TsTransition \/ TsValidate

TsSpec == TsInit /\ [][TsNext]_vars

\* C2: the validator accepts, on the original instance, the reconstructed scene
\* order of every complete path with the reconstructed cost.
C2_TalentSchedulingPathValid == pc = "done" => verdict = Some(TRUE)

(***************************************************************************)
(*                                MOSP                                     *)
(***************************************************************************)
\* bounds of the enumerated MOSP instances: rows (products) and columns (customers)
MospMaxRows == 2
MospMaxCols == 4

\* read_from_file: row i is the set of columns holding a 1; every product is
\* ordered by at least one customer
MospInstances(m, n) ==
    [matrix : [0..(m - 1) -> (SUBSET (0..(n - 1))) \ {{}}], n : {n}]

\* transpose
Mosp_transpose(inst) ==
    [i \in 0..(inst.n - 1) |-> { j \in DOMAIN inst.matrix : i \in inst.matrix[j] }]

\* Mosp::from
Mosp_from(inst) ==
    LET transposed == Mosp_transpose(inst) IN
    [matrix |-> inst.matrix,
     transposed |-> transposed,
     column_neighbors |->
        [c \in DOMAIN transposed |-> UNION { inst.matrix[i] : i \in transposed[c] }]]

RECURSIVE Mosp_reconstruct_from(_, _, _)
\* Mosp::reconstruct_solution: the loop over the rows of the closed columns
Mosp_reconstruct_from(rows, produced, solution) ==
    IF rows = <<>> THEN solution
    ELSE IF Head(rows) \in produced
         THEN Mosp_reconstruct_from(Tail(rows), produced, solution)
         ELSE Mosp_reconstruct_from(Tail(rows), produced \cup {Head(rows)},
                                    Append(solution, Head(rows)))

RECURSIVE Mosp_rows_of(_, _)
\* indices.iter().flat_map(|&j| self.transposed[j].ones())
Mosp_rows_of(m, indices) ==
    IF indices = <<>> THEN <<>>
    ELSE Ones(m.transposed[Head(indices)]) \o Mosp_rows_of(m, Tail(indices))

\* Mosp::reconstruct_solution
Mosp_reconstruct_solution(m, indices) ==
    Mosp_reconstruct_from(Mosp_rows_of(m, indices), {}, <<>>)

\* Mosp::get_target
Mosp_get_target(m) == [remaining |-> DOMAIN m.transposed, opened |-> {}]

\* Mosp::get_successors: the sequence of <<successor, weight, label>>
Mosp_get_successors(m, s) ==
    LET currently_open == s.opened \cap s.remaining
        order == Ones(s.remaining)
    IN [k \in 1..Len(order) |->
          LET i == order[k]
              newly_open == m.column_neighbors[i] \ s.opened
          IN <<[remaining |-> s.remaining \ {i},
                opened |-> s.opened \cup m.column_neighbors[i]],
               Cardinality(currently_open \cup newly_open), i>>]

\* Mosp::get_base_cost
Mosp_get_base_cost(s) == IF s.remaining = {} THEN Some(0) ELSE None

\* Mosp::combine_cost_weights
Mosp_combine_cost_weights(x, y) == Max(x, y)

RECURSIVE Mosp_validate_from(_, _, _, _, _)
\* validate: the loop over the schedule; <<ok, recomputed_cost>>
Mosp_validate_from(m, rest, produced, open, recomputed_cost) ==
    IF rest = <<>> THEN <<TRUE, recomputed_cost>>
    ELSE LET i == Head(rest) IN
         IF i \notin DOMAIN m.matrix THEN <<FALSE, recomputed_cost>>
         ELSE IF i \in produced THEN <<FALSE, recomputed_cost>>
         ELSE LET produced2 == produced \cup {i}
                  open2 == open \cup m.matrix[i]
                  closed == { c \in open2 : m.transposed[c] \subseteq produced2 }
              IN Mosp_validate_from(m, Tail(rest), produced2, open2 \ closed,
                                    Max(recomputed_cost, Cardinality(open2)))

\* validate
Mosp_validate(m, schedule, c) ==
    IF Len(schedule) # Cardinality(DOMAIN m.matrix) THEN FALSE
    ELSE LET r == Mosp_validate_from(m, schedule, {}, {}, 0) IN r[1] /\ r[2] = c

MospInit ==
    /\ \E m \in 1..MospMaxRows, n \in 1..MospMaxCols : instance \in MospInstances(m, n)
    /\ args = None
    /\ model = None
    /\ state = None
    /\ transitions = <<>>
    /\ cost = 0
    /\ verdict = None
    /\ pc = "read"
    /\ DrvIdle

\* main: Mosp::from(matrix) and the target state
MospPrepare ==
    /\ pc = "read"
    /\ DrvIdle
    /\ model' = Mosp_from(instance)
    /\ state' = Mosp_get_target(model')
    /\ pc' = "search"
    /\ UNCHANGED <<instance, args, transitions, cost, verdict, drvVars>>

\* one transition of the search: a successor of the current state is followed
MospTransition ==
    /\ pc = "search"
    /\ LET succs == Mosp_get_successors(model, state) IN
       \E k \in 1..Len(succs) :
          /\ state' = succs[k][1]
          /\ cost' = Mosp_combine_cost_weights(cost, succs[k][2])
          /\ transitions' = Append(transitions, succs[k][3])
    /\ UNCHANGED <<instance, args, model, verdict, pc, drvVars>>

\* the path ends in a base case: main reconstructs and validates the schedule
MospValidate ==
    /\ pc = "search"
    /\ IsSome(Mosp_get_base_cost(state))
    /\ cost' = Mosp_combine_cost_weights(cost, Unwrap(Mosp_get_base_cost(state)))
    /\ verdict' = Some(Mosp_validate(model, Mosp_reconstruct_solution(model, transitions), cost'))
    /\ pc' = "done"
    /\ UNCHANGED <<instance, args, model, state, transitions, drvVars>>

MospNext == MospPrepare \/ MospTransition \/ MospValidate

MospSpec == MospInit /\ [][MospNext]_vars

\* C3: for every complete path, the validator recomputes from the reconstructed
\* product schedule a maximum number of open stacks equal to the path's cost.
C3_MospPathValid == pc = "done" => verdict = Some(TRUE)

(***************************************************************************)
(*        The history driver (io-util): run_solver_and_dump_solution_history *)
(***************************************************************************)
\* bound: the number of search_next calls of a run
DrvMaxCalls == 3
\* bound: the costs and bounds a result may carry
DrvMaxCost == 2

\* Solution<C>, the fields the driver branches on (time, transitions, expanded
\* and generated are only copied into the line)
DrvSolutions ==
    [cost : {None} \cup {Some(c) : c \in 1..DrvMaxCost},
     best_bound : {None, Some(1)}]

\* what search_next may return in Ok(..): (solution, terminated)
DrvResults == [solution : DrvSolutions, terminated : BOOLEAN]

\* a line left by an earlier run in the file of the same name
DrvOldLine == [cost |-> 0, bound |-> None, complete |-> TRUE]

\* a format that writes the bound before the cost
Drv_format_line_swapped(solution) ==
    [cost |-> IF IsSome(solution.best_bound) THEN Unwrap(solution.best_bound)
              ELSE Unwrap(solution.cost),
     bound |-> IF IsSome(solution.best_bound) THEN solution.cost ELSE None,
     complete |-> TRUE]

\* a format that writes the cost in the bound field when there is no bound
Drv_format_line_no_blank(solution) ==
    [cost |-> Unwrap(solution.cost),
     bound |-> IF IsSome(solution.best_bound) THEN solution.best_bound ELSE solution.cost,
     complete |-> TRUE]

\* the line format!() builds: the bound field is blank when there is no bound
Drv_format_line(solution) ==
    [cost |-> Unwrap(solution.cost),
     bound |-> IF IsSome(solution.best_bound) THEN solution.best_bound ELSE None,
     complete |-> TRUE]

DrvLast == received[Len(received)]

DrvInit ==
    /\ instance = None /\ args = None /\ model = None /\ state = None
    /\ transitions = <<>> /\ cost = 0 /\ verdict = None
    /\ pc = "open"
    /\ file \in {<<>>, <<DrvOldLine>>}
    /\ dirty = FALSE
    /\ received = <<>>
    /\ returned = None
    /\ solver = None

\* OpenOptions::new().create(true).write(true).truncate(true).open(filename)?
DrvOpen ==
    /\ pc = "open"
    /\ \/ /\ file' = <<>>
          /\ pc' = "call"
          /\ UNCHANGED returned
       \/ /\ returned' = [ok |-> FALSE, error |-> "open"]
          /\ pc' = "err"
          /\ UNCHANGED file
    /\ UNCHANGED <<dpVars, solver, dirty, received>>

\* let (solution, terminated) = solver.search_next()?
DrvSearchNext ==
    /\ pc = "call"
    /\ Len(received) < DrvMaxCalls
    /\ \/ \E r \in DrvResults :
             /\ received' = Append(received, r)
             /\ pc' = IF IsSome(r.solution.cost) THEN "write" ELSE "check"
             /\ UNCHANGED returned
       \/ /\ returned' = [ok |-> FALSE, error |-> "search_next"]
          /\ pc' = "err"
          /\ UNCHANGED received
    /\ UNCHANGED <<dpVars, solver, file, dirty>>

\* a failing write that leaves nothing of the file
DrvWrite_losing_lines ==
    /\ pc = "write"
    /\ \/ /\ file' = Append(file, Drv_format_line(DrvLast.solution))
          /\ dirty' = TRUE
          /\ pc' = "flush"
          /\ UNCHANGED returned
       \/ /\ file' = <<>>
          /\ returned' = [ok |-> FALSE, error |-> "write"]
          /\ pc' = "err"
          /\ UNCHANGED dirty
    /\ UNCHANGED <<dpVars, solver, received>>

\* file.write_all(line.as_bytes())?  A failed write may leave a part of the line.
DrvWrite ==
    /\ pc = "write"
    /\ \/ /\ file' = Append(file, Drv_format_line(DrvLast.solution))
          /\ dirty' = TRUE
          /\ pc' = "flush"
          /\ UNCHANGED returned
       \/ /\ file' \in {file, Append(file, [Drv_format_line(DrvLast.solution)
                                             EXCEPT !.complete = FALSE])}
          /\ returned' = [ok |-> FALSE, error |-> "write"]
          /\ pc' = "err"
          /\ UNCHANGED dirty
    /\ UNCHANGED <<dpVars, solver, received>>

\* file.flush()?
DrvFlush ==
    /\ pc = "flush"
    /\ \/ /\ dirty' = FALSE
          /\ pc' = "check"
          /\ UNCHANGED returned
       \/ /\ returned' = [ok |-> FALSE, error |-> "flush"]
          /\ pc' = "err"
          /\ UNCHANGED dirty
    /\ UNCHANGED <<dpVars, solver, file, received>>

\* a driver that returns as soon as a solution has a cost
Drv_should_return_on_cost(r) == r.terminated \/ IsSome(r.solution.cost)

\* if terminated { return Ok(solution); }
Drv_should_return(r) == r.terminated

\* the end of the loop body: return, or go round again
DrvCheck ==
    /\ pc = "check"
    /\ IF Drv_should_return(DrvLast)
       THEN /\ returned' = [ok |-> TRUE, solution |-> DrvLast.solution]
            /\ pc' = "ok"
       ELSE /\ pc' = "call"
            /\ UNCHANGED returned
    /\ UNCHANGED <<dpVars, solver, file, dirty, received>>

DrvNext == DrvOpen \/ DrvSearchNext \/ DrvWrite \/ DrvFlush \/ DrvCheck

DrvSpec == DrvInit /\ [][DrvNext]_vars

\* the lines a sequence of results must have left: one per result with a cost
RECURSIVE DrvExpected(_)
DrvExpected(rs) ==
    IF rs = <<>> THEN <<>>
    ELSE LET r == rs[Len(rs)]
             before == DrvExpected(SubSeq(rs, 1, Len(rs) - 1))
         IN IF r.solution.cost = None THEN before
            ELSE Append(before, [cost |-> r.solution.cost[1],
                                 bound |-> r.solution.best_bound,
                                 complete |-> TRUE])

\* the driver has stopped, normally or with an error, after opening the file
DrvStopped == pc = "ok" \/ (pc = "err" /\ returned.error # "open")

\* C4 as stated: whenever the driver has stopped, normally or with an error, the
\* file (truncated when the run opened it) holds exactly one line per received
\* result with a cost, in order, and none for a result without a cost; every
\* line is written and flushed before the next search_next call.
C4_HistoryHoldsEveryCostedResult ==
    /\ DrvStopped => file = DrvExpected(received)
    /\ pc = "call" => (file = DrvExpected(received) /\ ~dirty)

\* C4 amended: the same, except when the driver stops because writing a line
\* failed: the file then holds the lines of the earlier results, followed by at
\* most a part of the last result's line.
C4_HistoryHoldsEveryWrittenResult ==
    /\ (DrvStopped /\ (pc = "err" => returned.error # "write"))
          => file = DrvExpected(received)
    /\ (pc = "err" /\ returned.error = "write")
          => /\ received # <<>> /\ DrvLast.solution.cost # None
             /\ LET before == DrvExpected(SubSeq(received, 1, Len(received) - 1))
                IN \/ file = before
                   \/ /\ Len(file) = Len(before) + 1
                      /\ SubSeq(file, 1, Len(before)) = before
                      /\ ~file[Len(file)].complete
    /\ pc = "call" => (file = DrvExpected(received) /\ ~dirty)

\* C4's case: the third result's write fails after two results were handled,
\* one with a cost and one without, leaving a part of the third line
C4_Witness ==
    /\ pc = "err" /\ returned.error = "write"
    /\ Len(received) = 3
    /\ received[1].solution.cost # None
    /\ received[2].solution.cost = None
    /\ Len(file) = 2
    /\ file[1].complete /\ ~file[2].complete

\* C5: the driver returns Ok only at the first result whose terminated flag is
\* set, with that result's solution; it calls search_next only while no result
\* was terminated; and after a terminated result it is handling that result's
\* line, has returned Ok, or has failed on that line's write or flush.
C5_ReturnsAtFirstTerminated ==
    /\ pc = "ok" =>
          /\ received # <<>>
          /\ DrvLast.terminated
          /\ returned = [ok |-> TRUE, solution |-> DrvLast.solution]
          /\ \A k \in 1..(Len(received) - 1) : ~received[k].terminated
    /\ pc = "call" => \A k \in 1..Len(received) : ~received[k].terminated
    /\ (received # <<>> /\ DrvLast.terminated) =>
          \/ pc \in {"write", "flush", "check", "ok"}
          \/ pc = "err" /\ returned.error \in {"write", "flush"}
    /\ (returned # None /\ returned.ok) => pc = "ok"

\* C5's case: Ok is returned at a terminated result that follows non-terminated ones
C5_Witness ==
    /\ pc = "ok"
    /\ Len(received) >= 2
    /\ ~received[1].terminated

(***************************************************************************)
(*                        Knapsack (knapsack_rpid)                         *)
(***************************************************************************)
\* the input files: three items, every profit and weight 1 or 2
KnFiles(maxCapacity) ==
    [profits : [1..3 -> 1..2], weights : [1..3 -> 1..2], capacity : 1..maxCapacity]

\* the sort key of read_from_file, weights[i] / profits[i], compared exactly
Knapsack_key_less(f, i, j) == f.weights[i] * f.profits[j] < f.weights[j] * f.profits[i]

\* Instance::read_from_file: the items in the order of the stable sort by weight / profit
Knapsack_read_from_file(f) ==
    LET n == Len(f.profits)
        rank(i) == Cardinality({ j \in 1..n :
                      \/ Knapsack_key_less(f, j, i)
                      \/ (~Knapsack_key_less(f, i, j) /\ j < i) })
        indices == [k \in 1..n |-> CHOOSE i \in 1..n : rank(i) = k - 1]
    IN [profits |-> [k \in 1..n |-> f.profits[indices[k]]],
        weights |-> [k \in 1..n |-> f.weights[indices[k]]],
        capacity |-> f.capacity,
        indices |-> [k \in 1..n |-> indices[k] - 1]]

\* Knapsack::new: total_profit_after, and max_efficiency_after as the <<profit, weight>>
\* of an item of the largest profit / weight from each position on
Knapsack_new(inst) ==
    LET n == Len(inst.profits) IN
    [total_profit_after |->
        [i \in 1..n |-> SumOver(i..n, inst.profits)],
     max_efficiency_after |->
        [i \in 1..n |->
            LET j == CHOOSE j \in i..n : \A k \in i..n :
                        inst.profits[k] * inst.weights[j] <= inst.profits[j] * inst.weights[k]
            IN <<inst.profits[j], inst.weights[j]>>]]

\* Knapsack::get_target
Knapsack_get_target(inst) == [current |-> 0, remaining |-> inst.capacity]

\* successors that pack every item that fits
Knapsack_get_successors_greedy(inst, s) ==
    LET ignore == [current |-> s.current + 1, remaining |-> s.remaining]
        pack == [current |-> s.current + 1,
                 remaining |-> s.remaining - inst.weights[s.current + 1]]
    IN IF s.current >= Len(inst.profits) THEN <<>>
       ELSE IF inst.weights[s.current + 1] > s.remaining THEN << <<ignore, 0, 1>> >>
       ELSE << <<pack, inst.profits[s.current + 1], 0>> >>

\* Knapsack::get_successors: the sequence of <<successor, weight, label>>
Knapsack_get_successors(inst, s) ==
    LET ignore == [current |-> s.current + 1, remaining |-> s.remaining]
        pack == [current |-> s.current + 1,
                 remaining |-> s.remaining - inst.weights[s.current + 1]]
    IN IF s.current >= Len(inst.profits) THEN <<>>
       ELSE IF inst.weights[s.current + 1] > s.remaining THEN << <<ignore, 0, 1>> >>
       ELSE << <<pack, inst.profits[s.current + 1], 0>>, <<ignore, 0, 1>> >>

\* Knapsack::get_base_cost
Knapsack_get_base_cost(inst, s) ==
    IF s.current = Len(inst.profits) THEN Some(0) ELSE None

\* Knapsack::get_optimization_mode
Knapsack_get_optimization_mode == "max"

\* a bound that leaves out the total profit of the items to come
Knapsack_get_dual_bound_efficiency(inst, m, s) ==
    IF s.current = Len(inst.profits) THEN Some(0)
    ELSE LET e == m.max_efficiency_after[s.current + 1]
         IN Some((s.remaining * e[1]) \div e[2])

\* Knapsack::get_dual_bound: floor(remaining * (profit / weight + epsilon)) is
\* floor(remaining * profit / weight) for the default epsilon of 1e-6
Knapsack_get_dual_bound(inst, m, s) ==
    IF s.current = Len(inst.profits) THEN Some(0)
    ELSE LET maximum_total_profit == m.total_profit_after[s.current + 1]
             e == m.max_efficiency_after[s.current + 1]
             maximum_efficiency_bound == (s.remaining * e[1]) \div e[2]
         IN Some(Min(maximum_total_profit, maximum_efficiency_bound))

\* Ord::cmp
Cmp(x, y) == IF x < y THEN "Less" ELSE IF x = y THEN "Equal" ELSE "Greater"

\* a key that tells no two states apart
Knapsack_get_key_unit(s) == 0

\* Knapsack::get_key
Knapsack_get_key(s) == s.current

\* a comparison that takes the state with less capacity left for the better one
Knapsack_compare_reversed(a, b) == Some(Cmp(b.remaining, a.remaining))

\* Knapsack::compare
Knapsack_compare(a, b) == Some(Cmp(a.remaining, b.remaining))

(***************************************************************************)
(*              TSPTW (tsptw_rpid): the bound and the dominance            *)
(***************************************************************************)
\* a bound that adds the two relaxations up
Tsptw_get_dual_bound_sum(inst, m, s) ==
    IF s.unvisited = {}
    THEN IF s.current = 0 THEN Some(0) ELSE inst.c[s.current][0]
    ELSE Some(SumOver(s.unvisited, [i \in s.unvisited |-> Unwrap(m.min_to[i])])
              + Unwrap(m.min_to[0]) + Unwrap(m.min_from[s.current])
              + SumOver(s.unvisited, [i \in s.unvisited |-> Unwrap(m.min_from[i])]))

\* Tsptw::get_dual_bound
Tsptw_get_dual_bound(inst, m, s) ==
    IF s.unvisited = {}
    THEN IF s.current = 0 THEN Some(0) ELSE inst.c[s.current][0]
    ELSE LET bound_to == SumOver(s.unvisited, [i \in s.unvisited |-> Unwrap(m.min_to[i])])
                         + Unwrap(m.min_to[0])
             bound_from == Unwrap(m.min_from[s.current])
                           + SumOver(s.unvisited, [i \in s.unvisited |-> Unwrap(m.min_from[i])])
         IN Some(Max(bound_to, bound_from))

\* Tsptw::get_key
Tsptw_get_key(s) == <<s.unvisited, s.current>>

\* a comparison that tells no two states of a key apart
Tsptw_compare_indifferent(a, b) == Some("Equal")

\* Tsptw::compare
Tsptw_compare(a, b) == Some(Cmp(b.time, a.time))

(***************************************************************************)
(*   The search engine the binaries call through rpid::solvers: the        *)
(*   capability a model offers it, the registry, A* and CABS.              *)
(***************************************************************************)
\* the capability of a prepared model: m.problem names the impl, m.inst is the
\* instance, m.data what the constructor precomputed, and m.dominance is FALSE for
\* the degenerate capability whose compare never answers
Cap_mode(m) ==
    IF m.problem = "knapsack" THEN Knapsack_get_optimization_mode
    ELSE "min"

Cap_target(m) ==
    IF m.problem = "knapsack" THEN Knapsack_get_target(m.inst)
    ELSE Tsptw_get_target(m.inst)

Cap_successors(m, s) ==
    IF m.problem = "knapsack" THEN Knapsack_get_successors(m.inst, s)
    ELSE Tsptw_get_successors(m.inst, m.data, m.minimize_makespan, s)

Cap_base_cost(m, s) ==
    IF m.problem = "knapsack" THEN Knapsack_get_base_cost(m.inst, s)
    ELSE Tsptw_get_base_cost(s)

Cap_dual_bound(m, s) ==
    IF m.problem = "knapsack" THEN Knapsack_get_dual_bound(m.inst, m.data, s)
    ELSE Tsptw_get_dual_bound(m.inst, m.data, s)

Cap_key(m, s) ==
    IF ~m.dominance THEN <<>>
    ELSE IF m.problem = "knapsack" THEN Knapsack_get_key(s)
    ELSE Tsptw_get_key(s)

Cap_compare(m, a, b) ==
    IF ~m.dominance THEN None
    ELSE IF m.problem = "knapsack" THEN Knapsack_compare(a, b)
    ELSE Tsptw_compare(a, b)

\* the value of F at v, with v evaluated once
Let(v, F(_)) == CHOOSE r \in { F(x) : x \in {v} } : TRUE

\* a is strictly better than b under the optimization direction
Eng_better(mode, a, b) == IF mode = "max" THEN a > b ELSE a < b

\* the default combinator: addition
Eng_combine(a, b) == a + b

RECURSIVE Cap_optimum_from(_, _)
\* the best cost of a complete path from s on, None when there is none
Cap_optimum_from(m, s) ==
    LET base == Cap_base_cost(m, s) IN
    IF IsSome(base) THEN base
    ELSE LET succs == Cap_successors(m, s)
             rest == [k \in 1..Len(succs) |-> Cap_optimum_from(m, succs[k][1])]
             costs == { Eng_combine(succs[k][2], Unwrap(rest[k])) :
                          k \in { k \in 1..Len(succs) : IsSome(rest[k]) } }
         IN IF costs = {} THEN None
            ELSE Some(CHOOSE x \in costs : \A y \in costs : ~Eng_better(Cap_mode(m), y, x))

\* the optimal cost of the model: the best cost over all its complete paths
Cap_optimum(m) == Cap_optimum_from(m, Cap_target(m))

\* a search node: g, f = combine(g, h), the labels from the target, the insertion
\* sequence number, the base cost of its state; feasible is FALSE for a state
\* without a bound that is no base case
Eng_node(m, s, g, path, seq) ==
    LET h == Cap_dual_bound(m, s)
        base == Cap_base_cost(m, s)
    IN [state |-> s, g |-> g, path |-> path, seq |-> seq, base |-> base,
        feasible |-> IsSome(h) \/ IsSome(base),
        f |-> IF IsSome(h) THEN Eng_combine(g, Unwrap(h))
              ELSE IF IsSome(base) THEN Eng_combine(g, Unwrap(base)) ELSE g]

\* the priority order: the better f first, then the larger g, then the earlier insertion
Eng_before(mode, a, b) ==
    \/ Eng_better(mode, a.f, b.f)
    \/ a.f = b.f /\ a.g > b.g
    \/ a.f = b.f /\ a.g = b.g /\ a.seq < b.seq

\* the insertion of n into a queue kept in priority order
Eng_push(mode, q, n) ==
    LET k == Cardinality({ i \in 1..Len(q) : Eng_before(mode, q[i], n) })
    IN SubSeq(q, 1, k) \o <<n>> \o SubSeq(q, k + 1, Len(q))

\* the registry's survey: the member e has the candidate c discarded
Eng_discards(m, mode, e, c) ==
    LET o == Cap_compare(m, e.state, c.state) IN
    /\ o # None
    /\ \/ Unwrap(o) = "Greater" /\ ~Eng_better(mode, c.g, e.g)
       \/ Unwrap(o) = "Equal" /\ ~Eng_better(mode, c.f, e.f)

\* the registry's survey: the candidate c has the member e removed
Eng_supersedes(m, mode, c, e) ==
    LET o == Cap_compare(m, e.state, c.state) IN
    /\ o # None
    /\ \/ Unwrap(o) = "Less" /\ ~Eng_better(mode, e.g, c.g)
       \/ Unwrap(o) = "Equal" /\ Eng_better(mode, c.f, e.f)

\* the incumbent after a base case of cost cand.cost: the best observed so far
Eng_update_incumbent(mode, inc, cand) ==
    IF inc = None \/ Eng_better(mode, cand.cost, Unwrap(inc).cost) THEN Some(cand) ELSE inc

\* the bound after a new one is combined with the prior one: never regressing
Eng_tighten(mode, prior, new) ==
    IF prior = None THEN Some(new)
    ELSE IF Eng_better(mode, new, Unwrap(prior)) THEN prior ELSE Some(new)

\* one generated successor c: discarded when infeasible, when its f is strictly
\* worse than the incumbent, or when dominated on arrival; else registered, the
\* members it dominates removed; CABS sets a base case aside as an incumbent
\* candidate, everything else joins the open set
Eng_consider(m, es, c) ==
    LET group == { e \in es.registry : Cap_key(m, e.state) = Cap_key(m, c.state) }
        removed == { e \in group : Eng_supersedes(m, es.mode, c, e) }
        seqs == { e.seq : e \in removed }
        counted == [es EXCEPT !.seq = @ + 1]
    IN IF ~c.feasible THEN counted
       ELSE IF IsSome(es.incumbent) /\ Eng_better(es.mode, Unwrap(es.incumbent).cost, c.f)
       THEN counted
       ELSE IF \E e \in group : Eng_discards(m, es.mode, e, c) THEN counted
       ELSE IF es.kind = "cabs" /\ IsSome(c.base)
       THEN [counted EXCEPT
               !.registry = (@ \ removed) \cup {c},
               !.open = SelectSeq(@, LAMBDA e : e.seq \notin seqs),
               !.incumbent = Eng_update_incumbent(es.mode, @,
                                [cost |-> Eng_combine(c.g, Unwrap(c.base)),
                                 transitions |-> c.path])]
       ELSE [counted EXCEPT
               !.registry = (@ \ removed) \cup {c},
               !.open = Eng_push(es.mode, SelectSeq(@, LAMBDA e : e.seq \notin seqs), c)]

RECURSIVE Eng_generate(_, _, _, _, _)
\* the successors succs[k], succs[k+1], ... of the node parent, in this order
Eng_generate(m, es, parent, succs, k) ==
    IF k > Len(succs) THEN es
    ELSE Let(Eng_node(m, succs[k][1], Eng_combine(parent.g, succs[k][2]),
                      Append(parent.path, succs[k][3]), es.seq),
             LAMBDA c :
                Let(Eng_consider(m, es, c),
                    LAMBDA next : Eng_generate(m, next, parent, succs, k + 1)))

\* the expansion of one node
Eng_expand(m, es, n) ==
    Let(Cap_successors(m, n.state), LAMBDA succs : Eng_generate(m, es, n, succs, 1))

\* a fresh traversal: the target alone, in an emptied live registry
Eng_start(m, es) ==
    LET blank == [es EXCEPT !.open = <<>>, !.layer = <<>>, !.registry = {},
                            !.suspended = FALSE, !.susp_f = None]
    IN Let(Eng_node(m, Cap_target(m), 0, <<>>, es.seq),
           LAMBDA target :
              Let(Eng_consider(m, blank, target),
                  LAMBDA first :
                     IF es.kind = "cabs" THEN [first EXCEPT !.layer = first.open, !.open = <<>>]
                     ELSE first))

\* create_astar, create_cabs: the solver before its first search_next
Eng_create(m, config) ==
    Eng_start(m,
        [kind |-> config.solver, mode |-> Cap_mode(m),
         width |-> config.initial_beam_width, growth |-> config.beam_width_growth,
         cap |-> config.max_beam_width,
         open |-> <<>>, layer |-> <<>>, registry |-> {}, seq |-> 0,
         incumbent |-> None, bound |-> None,
         suspended |-> FALSE, susp_f |-> None, status |-> "running", exhausted |-> FALSE])

\* the solution record and the terminated flag search_next returns
Eng_result(es, terminated) ==
    [solution |->
        [cost |-> IF IsSome(es.incumbent) THEN Some(Unwrap(es.incumbent).cost) ELSE None,
         best_bound |-> es.bound,
         transitions |-> IF IsSome(es.incumbent) THEN Unwrap(es.incumbent).transitions
                         ELSE <<>>,
         is_optimal |-> es.status = "optimal",
         is_infeasible |-> es.status = "infeasible"],
     terminated |-> terminated]

\* a completion criterion is met: the incumbent is optimal, or there is none and
\* the model is infeasible; what is left of the open set is pruned.  exhausted
\* tells that the open set (the layer, with no suspended node) was found empty.
Eng_finish(es, exhausted) ==
    [es EXCEPT !.open = <<>>, !.layer = <<>>, !.exhausted = exhausted,
               !.status = IF IsSome(es.incumbent) THEN "optimal" ELSE "infeasible",
               !.bound = IF IsSome(es.incumbent) THEN Some(Unwrap(es.incumbent).cost) ELSE @]

\* A*: the bound surfaced with a result, the better of the head's f and the
\* incumbent, combined with the bound surfaced before
AStar_bound(es) ==
    LET c == Unwrap(es.incumbent).cost
        b == IF es.open # <<>> /\ Eng_better(es.mode, es.open[1].f, c)
             THEN es.open[1].f ELSE c
    IN Eng_tighten(es.mode, es.bound, b)

\* A*: one turn of the expansion loop; <<the solver after it, what the loop does
\* next>>: "continue", "yield" a result to the driver, or "done"
AStar_step(m, es) ==
    IF es.open = <<>> THEN <<Eng_finish(es, TRUE), "done">>
    ELSE LET head == es.open[1]
             rest == [es EXCEPT !.open = Tail(@)]
         IN IF IsSome(es.incumbent)
               /\ ~Eng_better(es.mode, head.f, Unwrap(es.incumbent).cost)
            THEN <<Eng_finish(es, FALSE), "done">>
            ELSE IF IsSome(head.base)
            THEN LET inc == Eng_update_incumbent(es.mode, es.incumbent,
                               [cost |-> Eng_combine(head.g, Unwrap(head.base)),
                                transitions |-> head.path])
                     found == [rest EXCEPT !.incumbent = inc]
                 IN IF inc # es.incumbent
                    THEN <<[found EXCEPT !.bound = AStar_bound(found)], "yield">>
                    ELSE <<rest, "continue">>
            ELSE <<Eng_expand(m, rest, head), "continue">>

RECURSIVE Cabs_sweep(_, _, _, _)
\* CABS: the expansion of the nodes layer[k], layer[k+1], ... of the current layer
Cabs_sweep(m, es, layer, k) ==
    IF k > Len(layer) THEN es
    ELSE Let(Eng_expand(m, es, layer[k]), LAMBDA next : Cabs_sweep(m, next, layer, k + 1))

\* the best f among the nodes of q and the f kept so far
Cabs_best_f(mode, kept, q) ==
    LET fs == { q[i].f : i \in 1..Len(q) } \cup (IF IsSome(kept) THEN {Unwrap(kept)} ELSE {})
    IN IF fs = {} THEN None
       ELSE Some(CHOOSE x \in fs : \A y \in fs : ~Eng_better(mode, y, x))

\* a beam that never widens
Cabs_next_width_fixed(es) == es.width

\* the beam width of the next iteration: W * r, held at the cap once reached
Cabs_next_width(es) ==
    IF IsSome(es.cap) /\ es.width * es.growth > Unwrap(es.cap) THEN Unwrap(es.cap)
    ELSE es.width * es.growth

\* CABS: the beam cut after the sweep of a layer: the best W candidates make the
\* next layer, the rest is suspended; the sweep yields when it improved the incumbent
Cabs_cut(es, swept) ==
    LET w == Min(es.width, Len(swept.open))
        kept == SubSeq(swept.open, 1, w)
        cut == SubSeq(swept.open, w + 1, Len(swept.open))
    IN <<[swept EXCEPT
            !.layer = kept, !.open = <<>>,
            !.registry = @ \ { cut[i] : i \in 1..Len(cut) },
            !.suspended = @ \/ cut # <<>>,
            !.susp_f = Cabs_best_f(es.mode, @, cut)],
         IF swept.incumbent # es.incumbent THEN "yield" ELSE "continue">>

\* CABS: one layer sweep with its beam cut, or the end of an iteration: the search
\* ends after an iteration without a suspended node, or when the bound of the
\* suspended nodes meets the incumbent; else the next iteration starts
Cabs_step(m, es) ==
    IF es.layer = <<>>
    THEN IF ~es.suspended THEN <<Eng_finish(es, TRUE), "done">>
         ELSE LET b == Eng_tighten(es.mode, es.bound, Unwrap(es.susp_f)) IN
              IF IsSome(es.incumbent)
                 /\ ~Eng_better(es.mode, Unwrap(b), Unwrap(es.incumbent).cost)
              THEN <<Eng_finish(es, FALSE), "done">>
              ELSE <<Eng_start(m, [es EXCEPT !.bound = b, !.width = Cabs_next_width(es)]),
                     "yield">>
    ELSE Let(Cabs_sweep(m, es, es.layer, 1), LAMBDA swept : Cabs_cut(es, swept))

\* one turn of the solver's loop
Eng_step(m, es) == IF es.kind = "astar" THEN AStar_step(m, es) ELSE Cabs_step(m, es)

RECURSIVE Eng_run(_, _)
\* the solver once it has run to completion without a time limit
Eng_run(m, es) ==
    Let(Eng_step(m, es), LAMBDA r : IF r[2] = "done" THEN r[1] ELSE Eng_run(m, r[1]))

(***************************************************************************)
(*   main of tsptw_rpid and knapsack_rpid: the model is built, the solver  *)
(*   created and handed to run_solver_and_dump_solution_history.           *)
(***************************************************************************)
\* bound: the search_next calls of a run that does not end by itself
EngMaxCalls == 6
\* bound: the capacity of the enumerated knapsacks
KnMaxCapacity == 3

\* the TSPTW instances of the runs: a depot and two customers, the depot's window
\* open, every edge into the depot of length 1
EngTsptwInstances(maxDist) ==
    { [a |-> [i \in 0..2 |-> IF i = 0 THEN 0 ELSE w[i].a],
       b |-> [i \in 0..2 |-> IF i = 0 THEN TsptwMaxTime ELSE w[i].b],
       c |-> [i \in 0..2 |-> [j \in 0..2 |->
                IF i = j THEN None ELSE IF j = 0 THEN Some(1) ELSE Some(d[<<i, j>>])]]] :
      w \in [1..2 -> TsptwWindows],
      d \in [{<<0, 1>>, <<0, 2>>, <<1, 2>>, <<2, 1>>} -> 1..maxDist] }

\* the solver a run asks for: A*, or CABS with its initial width W_0, its growth
\* factor r and its optional cap
EngConfigs ==
    { [solver |-> "astar", initial_beam_width |-> 1, beam_width_growth |-> 2,
       max_beam_width |-> None] }
    \cup { [solver |-> "cabs", initial_beam_width |-> w, beam_width_growth |-> r,
            max_beam_width |-> None] : w \in 1..2, r \in 2..3 }
    \cup { [solver |-> "cabs", initial_beam_width |-> 1, beam_width_growth |-> 2,
            max_beam_width |-> Some(1)] }

\* the capability the solver of this run searches
EngCap ==
    [problem |-> args.problem, inst |-> instance, data |-> model,
     minimize_makespan |-> args.minimize_makespan, dominance |-> TRUE]

\* the same model behind a dominance that never reports two states comparable
EngCapNoDominance == [EngCap EXCEPT !.dominance = FALSE]

EngInit ==
    /\ \E config \in EngConfigs, expires \in BOOLEAN :
          \/ /\ instance \in EngTsptwInstances(2)
             /\ \E mm \in BOOLEAN :
                   args = [problem |-> "tsptw", minimize_makespan |-> mm,
                           simplification_level |-> "None",
                           config |-> config, expires |-> expires]
          \/ /\ instance \in KnFiles(KnMaxCapacity)
             /\ args = [problem |-> "knapsack", minimize_makespan |-> FALSE,
                        simplification_level |-> "None",
                        config |-> config, expires |-> expires]
    /\ model = None /\ state = None
    /\ transitions = <<>> /\ cost = 0 /\ verdict = None
    /\ pc = "read"
    /\ DrvIdle

\* main: read the instance, build the model, create the solver
EngPrepare ==
    /\ pc = "read"
    /\ \E inst \in { IF args.problem = "knapsack" THEN Knapsack_read_from_file(instance)
                      ELSE apply_simplification(instance, args.simplification_level) } :
       \E data \in { IF args.problem = "knapsack" THEN Knapsack_new(inst)
                      ELSE Tsptw_new(inst) } :
          /\ instance' = inst
          /\ model' = data
          /\ IF args.problem = "tsptw" /\ Tsptw_new_panics(inst)
             THEN pc' = "panic" /\ UNCHANGED solver
             ELSE /\ pc' = "open"
                  /\ solver' = Eng_create([problem |-> args.problem, inst |-> inst,
                                            data |-> data,
                                            minimize_makespan |-> args.minimize_makespan,
                                            dominance |-> TRUE],
                                           args.config)
    /\ UNCHANGED <<args, state, transitions, cost, verdict, file, dirty, received, returned>>

\* search_next: one turn of the solver's loop; the call returns when the turn
\* yields a result or ends the search
EngSearch ==
    /\ pc = "call"
    /\ Len(received) < EngMaxCalls
    /\ \E r \in { Eng_step(EngCap, solver) } :
       /\ solver' = r[1]
       /\ IF r[2] = "continue"
          THEN UNCHANGED <<received, pc>>
          ELSE LET result == Eng_result(r[1], r[2] = "done") IN
               /\ received' = Append(received, result)
               /\ pc' = IF IsSome(result.solution.cost) THEN "write" ELSE "check"
    /\ UNCHANGED <<dpVars, file, dirty, returned>>

\* search_next: the time limit has expired at the head of the loop
EngTimeout ==
    /\ pc = "call"
    /\ args.expires
    /\ solver' = [solver EXCEPT !.status = "timeout"]
    /\ LET result == Eng_result([solver EXCEPT !.status = "timeout"], TRUE) IN
       /\ received' = Append(received, result)
       /\ pc' = IF IsSome(result.solution.cost) THEN "write" ELSE "check"
    /\ UNCHANGED <<dpVars, file, dirty, returned>>

EngNext ==
    EngPrepare \/ DrvOpen \/ EngSearch \/ EngTimeout \/ DrvWrite \/ DrvFlush \/ DrvCheck

EngSpec == EngInit /\ [][EngNext]_vars

\* the runs of CABS without a time limit
CabsInit == EngInit /\ args.config.solver = "cabs" /\ ~args.expires

CabsNext ==
    EngPrepare \/ DrvOpen \/ EngSearch \/ DrvWrite \/ DrvFlush \/ DrvCheck

\* the solver's turns are taken as long as the run has not stopped
CabsFairSpec == CabsInit /\ [][CabsNext]_vars /\ WF_vars(CabsNext)

\* the costs and the bounds the results received so far carry, in order
EngCosts == SelectSeq([k \in 1..Len(received) |-> received[k].solution.cost], IsSome)
EngBounds == SelectSeq([k \in 1..Len(received) |-> received[k].solution.best_bound], IsSome)

\* the sequence of options q never gets worse (as costs) under the run's direction
EngNeverWorsens(q) ==
    \A i, j \in 1..Len(q) :
        i < j => IF args.problem = "knapsack" THEN q[i][1] <= q[j][1] ELSE q[i][1] >= q[j][1]

\* the solver has run to a completion criterion and the driver has returned its result
EngCompleted == pc = "ok" /\ solver.status \in {"optimal", "infeasible"}

\* C6: within one run of either solver the costs of successive search_next
\* results never worsen (they never rise under minimization, never fall under
\* maximization), a result after one with a cost has a cost, and the same holds
\* of the costs of successive history rows.
C6_SurfacedCostsNeverWorsen ==
    /\ EngNeverWorsens(EngCosts)
    /\ \A i, j \in 1..Len(received) :
          (i < j /\ IsSome(received[i].solution.cost)) => IsSome(received[j].solution.cost)
    /\ EngNeverWorsens([k \in 1..Len(file) |-> Some(file[k].cost)])

\* C6's case: a run that has surfaced two different costs and written both rows
C6_Witness ==
    /\ Len(EngCosts) >= 2
    /\ EngCosts[1] # EngCosts[Len(EngCosts)]
    /\ Len(file) >= 2
    /\ file[1].cost # file[Len(file)].cost

\* C7: within one run of A* or CABS the best_bound of successive search_next
\* results is monotone: it never falls under minimization and never rises under
\* maximization, also from one CABS iteration to the next, wider one.
C7_SurfacedBoundMonotone ==
    \A i, j \in 1..Len(EngBounds) :
        i < j => IF args.problem = "knapsack" THEN EngBounds[i][1] >= EngBounds[j][1]
                 ELSE EngBounds[i][1] <= EngBounds[j][1]

\* C7's case: a CABS run that has widened its beam and surfaced two different bounds
C7_Witness ==
    /\ pc # "read" /\ pc # "panic"
    /\ solver.kind = "cabs"
    /\ solver.width > args.config.initial_beam_width
    /\ Len(EngBounds) >= 2
    /\ EngBounds[1] # EngBounds[Len(EngBounds)]

\* the run's CABS is not stopped by the time limit
EngCabsUnlimited == args.config.solver = "cabs" /\ ~args.expires

\* the driver has stopped on an error of the history file, or main has panicked
EngAborted == pc = "err" \/ pc = "panic"

C9_AStarOptimalOnEmpty ==
    (pc \notin {"read", "panic"} /\ solver.kind = "astar" /\ solver.exhausted) =>
        LET s == DrvLast.solution IN
        /\ DrvLast.terminated
        /\ s.is_infeasible # s.is_optimal
        /\ s.is_infeasible <=> (\A k \in 1..Len(received) : received[k].solution.cost = None)
        /\ s.is_optimal => (IsSome(s.cost) /\ s.cost = Cap_optimum(EngCap))

\* C9's case: A* has surfaced an incumbent, gone on and drained its open set
C9_Witness ==
    /\ pc = "ok"
    /\ solver.kind = "astar" /\ solver.exhausted
    /\ returned.solution.is_optimal
    /\ Len(received) >= 2

\* the solver of this run, run to completion on the model without dominance
EngPlainRun ==
    Eng_run(EngCapNoDominance,
            Eng_create(EngCapNoDominance, [args.config EXCEPT !.max_beam_width = None]))

EngRunBetter(a, b) == IF args.problem = "knapsack" THEN a > b ELSE a < b

\* C11 as stated: the history file holds one row per improving solution: every
\* row after the first reports a cost strictly better than the row before it.
C11_RowsStrictlyImprove ==
    \A k \in 2..Len(file) : EngRunBetter(file[k].cost, file[k - 1].cost)

\* C11 amended: the history file holds one row per search_next result that
\* carries a cost, whether or not that result improved on the one before it:
\* row k reports the cost of the k-th such result, no row reports a worse cost
\* than the row before it, and a run that has returned Ok has left all its rows.
C11_RowPerCostedResult ==
    /\ Len(file) <= Len(EngCosts)
    /\ \A k \in 1..Len(file) : file[k].cost = EngCosts[k][1]
    /\ \A k \in 2..Len(file) : ~EngRunBetter(file[k - 1].cost, file[k].cost)
    /\ pc = "ok" => Len(file) = Len(EngCosts)

\* C11's case: a completed run whose file holds a row that improves on the row
\* before it and a row that repeats the cost of the row before it
C11_Witness ==
    /\ pc = "ok"
    /\ \E k \in 2..Len(file) : EngRunBetter(file[k].cost, file[k - 1].cost)
    /\ \E k \in 2..Len(file) : file[k].cost = file[k - 1].cost

(***************************************************************************)
(*                     The driver's errors (io-util)                       *)
(***************************************************************************)
\* the operation the driver is about to perform at each position
DrvOperation ==
    [open |-> "open", call |-> "search_next", write |-> "write", flush |-> "flush"]

\* the lines of the file that were written and flushed
DrvFlushed == SubSeq(file, 1, Len(file) - (IF dirty THEN 1 ELSE 0))

\* a step in which an operation of the driver fails
DrvFails == pc # "err" /\ pc' = "err"

\* C12: when search_next returns an error, or opening, writing or flushing the
\* history file fails, the driver returns that error at once: the failing step
\* receives no result and leaves every line written and flushed before it in
\* the file, and after it the driver makes no search_next call and writes
\* nothing more (it takes no further step).
C12_ErrorReturnsAtOnce ==
    [][ /\ DrvFails =>
             /\ pc \in DOMAIN DrvOperation
             /\ returned' = [ok |-> FALSE, error |-> DrvOperation[pc]]
             /\ received' = received
             /\ Len(file') >= Len(DrvFlushed)
             /\ SubSeq(file', 1, Len(DrvFlushed)) = DrvFlushed
        /\ pc = "err" => UNCHANGED vars
        /\ (returned' # None /\ ~returned'.ok) => pc' = "err" ]_vars

\* C12's case: flushing the second line fails after the first line was written
\* and flushed; the driver has returned the error and the first line is there
C12_Witness ==
    /\ pc = "err" /\ returned.error = "flush"
    /\ Len(file) = 2 /\ file[1].complete
    /\ dirty

(***************************************************************************)
(*                     Bin packing (bin_packing_rpid)                      *)
(***************************************************************************)
\* bounds of the enumerated bin-packing instances
BpMaxItems == 4
BpMaxCapacity == 3

\* Instance::read_from_file: n items, a capacity, and a weight for every item; the
\* file may hold a weight of zero or one above the capacity
BpInstances(n) ==
    [capacity : 1..BpMaxCapacity, weights : [0..(n - 1) -> 0..(BpMaxCapacity + 1)]]

\* a capacity with a half and thirds, for the bounds that count large items
BpWideCapacity == 6

\* the instances of n items of that capacity, the weights between 1 and the capacity
BpWideInstances(n) ==
    [capacity : {BpWideCapacity}, weights : [0..(n - 1) -> 1..BpWideCapacity]]

\* the instance with weights 4 8 1 4 2 1 and capacity 10
BpExample ==
    [capacity |-> 10,
     weights |-> [i \in 0..5 |-> <<4, 8, 1, 4, 2, 1>>[i + 1]]]

BpN(inst) == Cardinality(DOMAIN inst.weights)

\* BinPacking::get_target
Bp_get_target(inst) ==
    [remaining |-> 0, unpacked |-> DOMAIN inst.weights, bin_number |-> 0]

\* the items that open a new bin in a state where no unpacked item fits
Bp_openers(inst, s) ==
    { i \in s.unpacked : s.bin_number <= i /\ inst.weights[i] > s.remaining }

\* a loop that returns the last opener
Bp_last_opener(inst, s) ==
    CHOOSE i \in Bp_openers(inst, s) : \A j \in Bp_openers(inst, s) : i >= j

\* the opener the loop returns: the first one
Bp_first_opener(inst, s) ==
    CHOOSE i \in Bp_openers(inst, s) : \A j \in Bp_openers(inst, s) : i <= j

\* successors whose new bin is left as empty as it was opened
Bp_get_successors_unweighed(inst, s) ==
    LET candidates == { i \in s.unpacked : s.remaining >= inst.weights[i] }
        packable == Ones({ i \in candidates : s.bin_number <= i + 1 })
    IN IF candidates = {}
       THEN IF Bp_openers(inst, s) = {} THEN <<>>
            ELSE LET i == Bp_first_opener(inst, s) IN
                 << <<[remaining |-> inst.capacity,
                       unpacked |-> s.unpacked \ {i},
                       bin_number |-> s.bin_number + 1], 1, i>> >>
       ELSE [k \in 1..Len(packable) |->
                <<[remaining |-> s.remaining - inst.weights[packable[k]],
                   unpacked |-> s.unpacked \ {packable[k]},
                   bin_number |-> s.bin_number], 0, packable[k]>>]

\* BinPacking::get_successors: the sequence of <<successor, weight, label>>
Bp_get_successors(inst, s) ==
    LET candidates == { i \in s.unpacked : s.remaining >= inst.weights[i] }
        packable == Ones({ i \in candidates : s.bin_number <= i + 1 })
    IN IF candidates = {}
       THEN IF Bp_openers(inst, s) = {} THEN <<>>
            ELSE LET i == Bp_first_opener(inst, s) IN
                 << <<[remaining |-> inst.capacity - inst.weights[i],
                       unpacked |-> s.unpacked \ {i},
                       bin_number |-> s.bin_number + 1], 1, i>> >>
       ELSE [k \in 1..Len(packable) |->
                <<[remaining |-> s.remaining - inst.weights[packable[k]],
                   unpacked |-> s.unpacked \ {packable[k]},
                   bin_number |-> s.bin_number], 0, packable[k]>>]

\* a base case that counts one more bin
Bp_get_base_cost_one(s) == IF s.unpacked = {} THEN Some(1) ELSE None

\* BinPacking::get_base_cost
Bp_get_base_cost(s) == IF s.unpacked = {} THEN Some(0) ELSE None

RECURSIVE Bp_validate_from(_, _, _, _, _, _)
\* Instance::validate, the loop from solution[k] on: capacity is what is left of
\* the last bin, packed the items seen, bins the number of bins pushed (it is the
\* recomputed cost); "panic" when bins.last_mut().unwrap() finds no bin
Bp_validate_from(inst, solution, k, capacity, packed, bins) ==
    IF k > Len(solution) THEN <<"ok", bins>>
    ELSE LET i == solution[k] IN
         IF i >= BpN(inst) THEN <<"invalid", bins>>
         ELSE IF i \in packed THEN <<"invalid", bins>>
         ELSE IF inst.weights[i] > capacity
         THEN Bp_validate_from(inst, solution, k + 1, inst.capacity - inst.weights[i],
                               packed \cup {i}, bins + 1)
         ELSE IF bins = 0 THEN <<"panic", bins>>
         ELSE Bp_validate_from(inst, solution, k + 1, capacity - inst.weights[i],
                               packed \cup {i}, bins)

\* Instance::validate panics (print_solution, which main calls before it, has
\* the same loop and panics on the same item)
Bp_validate_panics(inst, solution) ==
    /\ Len(solution) = BpN(inst)
    /\ Bp_validate_from(inst, solution, 1, 0, {}, 0)[1] = "panic"

\* Instance::validate, when it returns
Bp_validate(inst, solution, c) ==
    IF Len(solution) # BpN(inst) THEN FALSE
    ELSE LET r == Bp_validate_from(inst, solution, 1, 0, {}, 0) IN
         r[1] = "ok" /\ r[2] = c

RECURSIVE Bp_optimum_from(_, _)
\* the minimum cost of a complete path from s on, None when there is none
Bp_optimum_from(inst, s) ==
    LET base == Bp_get_base_cost(s) IN
    IF IsSome(base) THEN base
    ELSE LET succs == Bp_get_successors(inst, s)
             rest == [k \in 1..Len(succs) |-> Bp_optimum_from(inst, succs[k][1])]
             costs == { succs[k][2] + Unwrap(rest[k]) :
                          k \in { k \in 1..Len(succs) : IsSome(rest[k]) } }
         IN IF costs = {} THEN None
            ELSE Some(CHOOSE x \in costs : \A y \in costs : x <= y)

BpInit ==
    /\ \/ \E n \in 1..BpMaxItems : instance \in BpInstances(n)
       \/ \E n \in 1..BpMaxItems : instance \in BpWideInstances(n)
       \/ instance = BpExample
    /\ args = None
    /\ model = None
    /\ state = None
    /\ transitions = <<>>
    /\ cost = 0
    /\ verdict = None
    /\ pc = "read"
    /\ DrvIdle

\* main: BinPacking(instance) and the target state
BpPrepare ==
    /\ pc = "read"
    /\ state' = Bp_get_target(instance)
    /\ pc' = "search"
    /\ UNCHANGED <<instance, args, model, transitions, cost, verdict, drvVars>>

\* one transition of the search: a successor of the current state is followed
BpTransition ==
    /\ pc = "search"
    /\ LET succs == Bp_get_successors(instance, state) IN
       \E k \in 1..Len(succs) :
          /\ state' = succs[k][1]
          /\ cost' = cost + succs[k][2]
          /\ transitions' = Append(transitions, succs[k][3])
    /\ UNCHANGED <<instance, args, model, verdict, pc, drvVars>>

\* the path ends in a base case: main prints and validates the solution
BpValidate ==
    /\ pc = "search"
    /\ IsSome(Bp_get_base_cost(state))
    /\ cost' = cost + Unwrap(Bp_get_base_cost(state))
    /\ IF Bp_validate_panics(instance, transitions)
       THEN pc' = "panic" /\ UNCHANGED verdict
       ELSE /\ verdict' = Some(Bp_validate(instance, transitions, cost'))
            /\ pc' = "done"
    /\ UNCHANGED <<instance, args, model, state, transitions, drvVars>>

BpNext == BpPrepare \/ BpTransition \/ BpValidate

BpSpec == BpInit /\ [][BpNext]_vars

\* the weights of the instance all lie between 1 and the capacity
BpProper(inst) == \A i \in DOMAIN inst.weights : inst.weights[i] \in 1..inst.capacity

RECURSIVE BpBinsNeeded(_, _)
\* the least number of bins of the capacity that hold the items of S: the bin of
\* the smallest item of S takes some T, the other items need their own bins
BpBinsNeeded(inst, S) ==
    IF S = {} THEN 0
    ELSE LET m == CHOOSE x \in S : \A y \in S : x <= y
             fits == { T \in SUBSET S : m \in T /\ SumOver(T, inst.weights) <= inst.capacity }
             rest == { BpBinsNeeded(inst, S \ T) : T \in fits }
         IN 1 + (CHOOSE x \in rest : \A y \in rest : x <= y)

\* C13: for every instance whose weights all lie between 1 and the capacity, the
\* minimum cost over the complete paths of the model equals the least number of
\* bins that hold all items, no complete path costs less, and for the weights
\* 4 8 1 4 2 1 with capacity 10 this minimum is 2.
C13_BinPackingOptimumIsMinBins ==
    /\ (pc = "read" /\ BpProper(instance)) =>
          Bp_optimum_from(instance, Bp_get_target(instance))
             = Some(BpBinsNeeded(instance, DOMAIN instance.weights))
    /\ (pc = "read" /\ instance = BpExample) =>
          Bp_optimum_from(instance, Bp_get_target(instance)) = Some(2)
    /\ (pc \in {"done", "panic"} /\ BpProper(instance)) =>
          cost >= BpBinsNeeded(instance, DOMAIN instance.weights)

\* C13's case: a complete path of the instance 4 8 1 4 2 1 that reaches the
\* minimum of 2 bins, and (in other runs) paths that open more bins
C13_Witness ==
    /\ pc = "done"
    /\ instance = BpExample
    /\ cost = 2

\* every weight of the instance is positive
BpPositive(inst) == \A i \in DOMAIN inst.weights : inst.weights[i] >= 1

KnExample ==
    [profits |-> <<60, 100, 120>>, weights |-> <<10, 20, 30>>, capacity |-> 50]

\* Instance::validate on the packed items (indices from 0)
Knapsack_validate(inst, solution, profit) ==
    LET total_weight == SumOver({ k \in 1..Len(solution) : TRUE },
                                [k \in 1..Len(solution) |-> inst.weights[solution[k] + 1]])
        recomputed_profit == SumOver({ k \in 1..Len(solution) : TRUE },
                                [k \in 1..Len(solution) |-> inst.profits[solution[k] + 1]])
    IN IF total_weight > inst.capacity THEN FALSE
       ELSE recomputed_profit = profit

\* main: the items whose transition label is 0, by position
Knapsack_packed_items(labels) ==
    LET packed == SelectSeq([k \in 1..Len(labels) |-> <<k - 1, labels[k]>>],
                            LAMBDA x : x[2] = 0)
    IN [k \in 1..Len(packed) |-> packed[k][1]]

KnInit ==
    /\ instance \in KnFiles(KnMaxCapacity) \cup {KnExample}
    /\ args = None
    /\ model = None
    /\ state = None
    /\ transitions = <<>>
    /\ cost = 0
    /\ verdict = None
    /\ pc = "read"
    /\ DrvIdle

\* main: read_from_file, Knapsack::new and the target state
KnPrepare ==
    /\ pc = "read"
    /\ \E inst \in { Knapsack_read_from_file(instance) } :
          /\ instance' = inst
          /\ model' = Knapsack_new(inst)
          /\ state' = Knapsack_get_target(inst)
    /\ pc' = "search"
    /\ UNCHANGED <<args, transitions, cost, verdict, drvVars>>

\* one transition of the search: a successor of the current state is followed
KnTransition ==
    /\ pc = "search"
    /\ LET succs == Knapsack_get_successors(instance, state) IN
       \E k \in 1..Len(succs) :
          /\ state' = succs[k][1]
          /\ cost' = cost + succs[k][2]
          /\ transitions' = Append(transitions, succs[k][3])
    /\ UNCHANGED <<instance, args, model, verdict, pc, drvVars>>

\* the path ends in a base case: main validates the packed items
KnValidate ==
    /\ pc = "search"
    /\ IsSome(Knapsack_get_base_cost(instance, state))
    /\ cost' = cost + Unwrap(Knapsack_get_base_cost(instance, state))
    /\ verdict' = Some(Knapsack_validate(instance, Knapsack_packed_items(transitions), cost'))
    /\ pc' = "done"
    /\ UNCHANGED <<instance, args, model, state, transitions, drvVars>>

KnNext == KnPrepare \/ KnTransition \/ KnValidate

KnSpec == KnInit /\ [][KnNext]_vars

\* the run is at the target state of the instance 60 100 120 / 10 20 30 / 50
KnAtExampleTarget ==
    /\ pc = "search"
    /\ transitions = <<>>
    /\ instance.profits = KnExample.profits
    /\ instance.weights = KnExample.weights
    /\ instance.capacity = KnExample.capacity

\* the capability of the knapsack model of this run
KnCap ==
    [problem |-> "knapsack", inst |-> instance, data |-> model,
     minimize_makespan |-> FALSE, dominance |-> TRUE]

\* C14 as stated: for profits 60 100 120, weights 10 20 30 and capacity 50 the
\* dual bound computed at the target state (no item decided, remaining capacity
\* 50) equals 220.
C14_RootBoundIs220 ==
    KnAtExampleTarget =>
        /\ state = [current |-> 0, remaining |-> 50]
        /\ Knapsack_get_dual_bound(instance, model, state) = Some(220)

\* C14 amended: for this instance the dual bound knapsack_rpid computes at the
\* target state equals 280, the smaller of the total profit 280 and of
\* floor(50 * 60 / 10) = 300; 220 is the optimal profit, which the bound is not
\* below.
C14_RootBoundIs280 ==
    KnAtExampleTarget =>
        /\ state = [current |-> 0, remaining |-> 50]
        /\ Knapsack_get_dual_bound(instance, model, state) = Some(280)
        /\ Cap_optimum(KnCap) = Some(220)

\* C14's case: the model of the instance is built and the search is at its target
C14_Witness ==
    /\ KnAtExampleTarget
    /\ model.total_profit_after = <<280, 220, 120>>

(***************************************************************************)
(*                   Golomb ruler (golomb_ruler_rpid)                      *)
(***************************************************************************)
\* bound: the largest number of marks of the enumerated rulers
GrMaxN == 5

\* KNOWN_OPTIMAL_COSTS, the entry for k marks at position k + 1
KNOWN_OPTIMAL_COSTS ==
    <<0, 0, 1, 3, 6, 11, 17, 25, 34, 44, 55, 72, 85, 106, 127, 151, 177, 199, 216, 246,
      283, 333, 356, 372, 425, 480, 492, 553, 585>>

\* GolomobRuler::new: lower_bounds, extended by last + 1 up to index n
Golomb_new(n) ==
    [n |-> n,
     lower_bounds |->
        [k \in 0..Max(n, Len(KNOWN_OPTIMAL_COSTS) - 1) |->
            IF k < Len(KNOWN_OPTIMAL_COSTS) THEN KNOWN_OPTIMAL_COSTS[k + 1]
            ELSE KNOWN_OPTIMAL_COSTS[Len(KNOWN_OPTIMAL_COSTS)]
                 + (k - Len(KNOWN_OPTIMAL_COSTS) + 1)]]

\* GolomobRuler::get_target
Golomb_get_target(m) ==
    [mark_set |-> {0}, distance_set |-> {}, last_mark |-> 0, n_marks |-> 1]

\* an upper end that admits the next integer only
Golomb_ub_next(m, s) == s.last_mark + 1

\* the upper end of the range of the next mark
Golomb_ub(m, s) ==
    IF s.n_marks < m.n \div 2
    THEN (m.n * m.n + 1) \div 2 - m.lower_bounds[m.n \div 2 - s.n_marks]
    ELSE m.n * m.n + 1 - m.lower_bounds[m.n - s.n_marks]

\* GolomobRuler::get_successors: the sequence of <<successor, weight, label>>
Golomb_get_successors(m, s) ==
    LET marks == Ones({ i \in (s.last_mark + 1)..Golomb_ub(m, s) :
                          \A j \in s.mark_set : (i - j) \notin s.distance_set })
    IN [k \in 1..Len(marks) |->
          LET i == marks[k] IN
          <<[mark_set |-> s.mark_set \cup {i},
             distance_set |-> s.distance_set \cup { i - j : j \in s.mark_set },
             last_mark |-> i,
             n_marks |-> s.n_marks + 1],
            i - s.last_mark, i>>]

\* GolomobRuler::get_base_cost
Golomb_get_base_cost(m, s) == IF s.n_marks = m.n THEN Some(0) ELSE None

\* tuple_combinations: the pairs of positions <<a, b>>, a < b, in lexicographic order
Golomb_pairs(len) ==
    LET S == { p \in (1..len) \X (1..len) : p[1] < p[2] }
        before(p, q) == p[1] < q[1] \/ (p[1] = q[1] /\ p[2] < q[2])
    IN [k \in 1..Cardinality(S) |->
           CHOOSE p \in S : Cardinality({ q \in S : before(q, p) }) = k - 1]

\* a distance_set with room for n distances only
Golomb_validate_capacity_marks(n) == n

\* the size of the validator's distance_set
Golomb_validate_capacity(n) == n * n

RECURSIVE Golomb_validate_from(_, _, _, _, _, _)
\* validate, the loop from the k-th pair on: "ok" with the largest distance,
\* "repeated", or "panic" when insert is given a distance outside the bit set
Golomb_validate_from(n, marks, pairs, k, distance_set, max_distance) ==
    IF k > Len(pairs) THEN <<"ok", max_distance>>
    ELSE LET i == marks[pairs[k][1]]
             j == marks[pairs[k][2]]
             distance == IF i > j THEN i - j ELSE j - i
         IN IF distance \in distance_set THEN <<"repeated", max_distance>>
            ELSE IF distance >= Golomb_validate_capacity(n) THEN <<"panic", max_distance>>
            ELSE Golomb_validate_from(n, marks, pairs, k + 1, distance_set \cup {distance},
                                      Max(max_distance, distance))

\* validate panics
Golomb_validate_panics(n, marks) ==
    /\ Len(marks) = n
    /\ Golomb_validate_from(n, marks, Golomb_pairs(n), 1, {}, 0)[1] = "panic"

\* validate, when it returns
Golomb_validate(n, marks, length) ==
    IF Len(marks) # n THEN FALSE
    ELSE LET r == Golomb_validate_from(n, marks, Golomb_pairs(n), 1, {}, 0) IN
         r[1] = "ok" /\ r[2] = length

GrInit ==
    /\ instance \in 1..GrMaxN
    /\ args = None
    /\ model = None
    /\ state = None
    /\ transitions = <<>>
    /\ cost = 0
    /\ verdict = None
    /\ pc = "read"
    /\ DrvIdle

\* main: GolomobRuler::new(n) and the target state
GrPrepare ==
    /\ pc = "read"
    /\ model' = Golomb_new(instance)
    /\ state' = Golomb_get_target(model')
    /\ pc' = "search"
    /\ UNCHANGED <<instance, args, transitions, cost, verdict, drvVars>>

\* one transition of the search: a successor of the current state, which is no
\* base case, is followed
GrTransition ==
    /\ pc = "search"
    /\ Golomb_get_base_cost(model, state) = None
    /\ LET succs == Golomb_get_successors(model, state) IN
       \E k \in 1..Len(succs) :
          /\ state' = succs[k][1]
          /\ cost' = cost + succs[k][2]
          /\ transitions' = Append(transitions, succs[k][3])
    /\ UNCHANGED <<instance, args, model, verdict, pc, drvVars>>

\* the path ends in a base case: main validates the marks 0, labels..
GrValidate ==
    /\ pc = "search"
    /\ IsSome(Golomb_get_base_cost(model, state))
    /\ cost' = cost + Unwrap(Golomb_get_base_cost(model, state))
    /\ IF Golomb_validate_panics(instance, <<0>> \o transitions)
       THEN pc' = "panic" /\ UNCHANGED verdict
       ELSE /\ verdict' = Some(Golomb_validate(instance, <<0>> \o transitions, cost'))
            /\ pc' = "done"
    /\ UNCHANGED <<instance, args, model, state, transitions, drvVars>>

GrNext == GrPrepare \/ GrTransition \/ GrValidate

GrSpec == GrInit /\ [][GrNext]_vars

\* the marks of the path: 0 followed by the transition labels
GrMarks == <<0>> \o transitions

\* the marks are n strictly increasing values whose pairwise differences are all
\* distinct and whose largest mark equals the cost
GrIsRuler ==
    /\ Len(GrMarks) = instance
    /\ \A a, b \in 1..Len(GrMarks) : a < b => GrMarks[a] < GrMarks[b]
    /\ \A p, q \in (1..Len(GrMarks)) \X (1..Len(GrMarks)) :
          (p[1] < p[2] /\ q[1] < q[2] /\ p # q)
             => GrMarks[p[2]] - GrMarks[p[1]] # GrMarks[q[2]] - GrMarks[q[1]]
    /\ GrMarks[Len(GrMarks)] = cost

TsptwMst_new(inst) ==
    LET n == TsptwN(inst)
        c == [i \in 0..(n - 1) |-> [j \in 0..(n - 1) |-> IF j = 0 THEN None ELSE inst.c[i][j]]]
    IN [c_star |-> shortest_from(c, 0, n)]

\* Tsptw::get_successors (tsptw_mst_rpid): the customers only, in increasing order
TsptwMst_get_successors(inst, m, minimize_makespan, s) ==
    LET order == Ones(s.unvisited)
        visits == [k \in 1..Len(order) |->
                     Tsptw_visit(inst, m, minimize_makespan, s, order[k])]
        kept == SelectSeq(visits, IsSome)
    IN [k \in 1..Len(kept) |-> Unwrap(kept[k])]

\* Tsptw::get_base_cost (tsptw_mst_rpid): the edge back to the depot, whatever the time
TsptwMst_get_base_cost(inst, s) ==
    IF s.unvisited = {} THEN inst.c[s.current][0] ELSE None

\* tsptw_dypdl: x.unwrap_or(0), the entries of the tables c and c_star
unwrap_or_0(x) == IF IsSome(x) THEN Unwrap(x) ELSE 0

\* tsptw_dypdl: the state constraints, one per customer
TsptwDypdl_constraints(inst, m, s) ==
    \A next \in 1..(TsptwN(inst) - 1) :
        \/ next \notin s.unvisited
        \/ s.time + unwrap_or_0(m.c_star[s.current][next]) <= inst.b[next]

\* tsptw_dypdl: the transition visit of the customer next, None when a precondition
\* or a state constraint of the successor fails
TsptwDypdl_visit(inst, m, a, s, next) ==
    LET distance == unwrap_or_0(inst.c[s.current][next])
        arrival_time == s.time + distance
        successor == [unvisited |-> s.unvisited \ {next}, current |-> next,
                      time |-> Max(arrival_time, inst.a[next])]
    IN IF a.simplification_level = "Expensive" /\ ~IsSome(inst.c[s.current][next]) THEN None
       ELSE IF next \notin s.unvisited THEN None
       ELSE IF ~(arrival_time <= inst.b[next]) THEN None
       ELSE IF ~TsptwDypdl_constraints(inst, m, successor) THEN None
       ELSE Some(<<successor,
                   IF a.minimize_makespan THEN Max(distance, inst.a[next] - s.time)
                   ELSE distance,
                   next>>)

\* tsptw_dypdl: the applicable transitions, in the order they were added
TsptwDypdl_get_successors(inst, m, a, s) ==
    LET visits == [next \in 1..(TsptwN(inst) - 1) |-> TsptwDypdl_visit(inst, m, a, s, next)]
        kept == SelectSeq(visits, IsSome)
    IN [k \in 1..Len(kept) |-> Unwrap(kept[k])]

\* tsptw_dypdl: add_base_case_with_cost(vec![unvisited.is_empty()], c.element(current, 0))
TsptwDypdl_get_base_cost(inst, s) ==
    IF s.unvisited = {} THEN Some(unwrap_or_0(inst.c[s.current][0])) ELSE None

\* the successors and the base cost of the binary that runs
Tm_get_successors(inst, m, a, s) ==
    CASE a.binary = "tsptw_dypdl" -> TsptwDypdl_get_successors(inst, m, a, s)
      [] a.binary = "tsptw_mst_rpid" -> TsptwMst_get_successors(inst, m, a.minimize_makespan, s)
      [] a.binary = "tsptw_rpid" -> Tsptw_get_successors(inst, m, a.minimize_makespan, s)

Tm_get_base_cost(inst, a, s) ==
    CASE a.binary = "tsptw_dypdl" -> TsptwDypdl_get_base_cost(inst, s)
      [] a.binary = "tsptw_mst_rpid" -> TsptwMst_get_base_cost(inst, s)
      [] a.binary = "tsptw_rpid" -> Tsptw_get_base_cost(s)

TmInit ==
    /\ \E n \in 2..TsptwMaxNodes : instance \in TsptwInstances(n)
    /\ args \in [minimize_makespan : BOOLEAN,
                 simplification_level : {"None", "Cheap", "Expensive"},
                 binary : {"tsptw_rpid", "tsptw_mst_rpid", "tsptw_dypdl"}]
    /\ model = None
    /\ state = None
    /\ transitions = <<>>
    /\ cost = 0
    /\ verdict = None
    /\ pc = "read"
    /\ DrvIdle

\* main: simplify the instance and build the model; tsptw_dypdl unwraps min_to and
\* min_from for its dual bounds as the constructor of tsptw_rpid does
TmPrepare ==
    /\ pc = "read"
    /\ DrvIdle
    /\ LET inst == apply_simplification(instance, args.simplification_level) IN
       /\ instance' = inst
       /\ model' = IF args.binary = "tsptw_mst_rpid" THEN TsptwMst_new(inst) ELSE Tsptw_new(inst)
       /\ state' = Tsptw_get_target(inst)
       /\ pc' = IF args.binary # "tsptw_mst_rpid" /\ Tsptw_new_panics(inst)
                THEN "panic" ELSE "search"
    /\ UNCHANGED <<args, transitions, cost, verdict, drvVars>>

\* one transition of the search: a successor of the current state is followed
TmTransition ==
    /\ pc = "search"
    /\ Tm_get_base_cost(instance, args, state) = None
    /\ LET succs == Tm_get_successors(instance, model, args, state) IN
       \E k \in 1..Len(succs) :
          /\ state' = succs[k][1]
          /\ cost' = cost + succs[k][2]
          /\ transitions' = Append(transitions, succs[k][3])
    /\ UNCHANGED <<instance, args, model, verdict, pc, drvVars>>

\* the path ends in a base case: main validates the solution
TmValidate ==
    /\ pc = "search"
    /\ IsSome(Tm_get_base_cost(instance, args, state))
    /\ cost' = cost + Unwrap(Tm_get_base_cost(instance, args, state))
    /\ verdict' = Some(Tsptw_main_valid(instance, args.minimize_makespan, transitions, cost'))
    /\ pc' = "done"
    /\ UNCHANGED <<instance, args, model, state, transitions, drvVars>>

TmNext == TmPrepare \/ TmTransition \/ TmValidate

TmSpec == TmInit /\ [][TmNext]_vars

\* the time at which the tour of a state without unvisited customers is back at the depot
TmReturnTime(inst, s) ==
    Max(s.time + unwrap_or_0(inst.c[s.current][0]), inst.a[0])

\* C16: with minimize_makespan off, every complete path of tsptw_mst_rpid and of
\* tsptw_dypdl is accepted by Instance::validate with the path's cost, and a state
\* without unvisited customers has a base cost only if the return to the depot
\* arrives by b[0].
C16_MstPathValid ==
    args.binary \in {"tsptw_mst_rpid", "tsptw_dypdl"} =>
    /\ (pc = "done" /\ ~args.minimize_makespan) => verdict = Some(TRUE)
    /\ (pc = "search" /\ ~args.minimize_makespan
        /\ IsSome(Tm_get_base_cost(instance, args, state)))
         => TmReturnTime(instance, state) <= instance.b[0]

\* the customers of a path: its labels without the return label 0 of tsptw_rpid
TmCustomers(tour) == SelectSeq(tour, LAMBDA x : x # 0)

\* validate_inner's replay of the customers followed by the depot: <<ok, time, cost>>
TmReplay ==
    validate_from(instance, TmCustomers(transitions) \o <<0>>, 0, 0, {}, 0, TsptwN(instance))

RECURSIVE TmWaited(_, _, _, _)
\* whether the replay waits at a node of rest: it arrives before the window opens
TmWaited(inst, rest, time, current) ==
    IF rest = <<>> THEN FALSE
    ELSE LET next == Head(rest)
             arrival == time + unwrap_or_0(inst.c[current][next])
         IN \/ arrival < inst.a[next]
            \/ TmWaited(inst, Tail(rest), Max(arrival, inst.a[next]), next)

\* a complete path of tsptw_rpid or tsptw_mst_rpid found with minimize_makespan set
TmMakespanDone ==
    pc = "done" /\ args.minimize_makespan /\ args.binary \in {"tsptw_rpid", "tsptw_mst_rpid"}

SbMaxTasks == 3
SbMaxCycle == 2

\* the instances read_from_file produces for n tasks: a cycle time, a time for every
\* task (some longer than the cycle), and the predecessors of every task
SbInstances(n) ==
    [cycle_time : 1..SbMaxCycle,
     task_times : [0..(n - 1) -> 0..(SbMaxCycle + 1)],
     predecessors : [0..(n - 1) -> SUBSET (0..(n - 1))]]

\* self.0.task_times.len()
SbN(inst) == Cardinality(DOMAIN inst.task_times)

\* Salbp1::get_target
Salbp1_get_target(inst) ==
    [remaining |-> 0, unscheduled |-> 0..(SbN(inst) - 1)]

\* get_successors: the closure of filter_map, None when task i is filtered out
Salbp1_schedule(inst, s, i) ==
    LET remaining == s.remaining - inst.task_times[i] IN
    IF remaining >= 0 /\ Cardinality(inst.predecessors[i] \cap s.unscheduled) = 0
    THEN Some(<<[remaining |-> remaining, unscheduled |-> s.unscheduled \ {i}], 0, i>>)
    ELSE None

\* get_successors: the tasks that can be scheduled in the open station
Salbp1_scheduled(inst, s) ==
    LET order == Ones(s.unscheduled)
        tried == [k \in 1..Len(order) |-> Salbp1_schedule(inst, s, order[k])]
        kept == SelectSeq(tried, IsSome)
    IN [k \in 1..Len(kept) |-> Unwrap(kept[k])]

\* an open-station transition that leaves the remaining time as it is
Salbp1_open_station_idle(inst, s) ==
    <<[remaining |-> s.remaining, unscheduled |-> s.unscheduled], 1, SbN(inst)>>

\* get_successors: the transition that opens a station, labelled n
Salbp1_open_station(inst, s) ==
    <<[remaining |-> inst.cycle_time, unscheduled |-> s.unscheduled], 1, SbN(inst)>>

\* successors in which a station may be opened although a task still fits
Salbp1_get_successors_always_open(inst, s) ==
    Salbp1_scheduled(inst, s) \o <<Salbp1_open_station(inst, s)>>

\* Salbp1::get_successors
Salbp1_get_successors(inst, s) ==
    LET successors == Salbp1_scheduled(inst, s) IN
    IF successors = <<>> THEN <<Salbp1_open_station(inst, s)>> ELSE successors

\* Salbp1::get_base_cost
Salbp1_get_base_cost(s) ==
    IF s.unscheduled = {} THEN Some(0) ELSE None

RECURSIVE Salbp1_validate_from(_, _, _, _, _)
\* Instance::validate: the loop over the tasks; <<ok, scheduled, recomputed_cost>>
Salbp1_validate_from(inst, rest, remaining, scheduled, recomputed_cost) ==
    IF rest = <<>> THEN <<TRUE, scheduled, recomputed_cost>>
    ELSE LET task == Head(rest) IN
         IF task >= SbN(inst) THEN <<FALSE, scheduled, recomputed_cost>>
         ELSE IF task \in scheduled THEN <<FALSE, scheduled, recomputed_cost>>
         ELSE IF inst.predecessors[task] \ scheduled # {}
              THEN <<FALSE, scheduled, recomputed_cost>>
         ELSE LET opens == inst.task_times[task] > remaining
                  remaining2 == IF opens THEN inst.cycle_time ELSE remaining
              IN Salbp1_validate_from(inst, Tail(rest), remaining2 - inst.task_times[task],
                                      scheduled \cup {task},
                                      IF opens THEN recomputed_cost + 1 ELSE recomputed_cost)

\* Instance::validate
Salbp1_validate(inst, solution, c) ==
    LET r == Salbp1_validate_from(inst, solution, 0, {}, 0) IN
    /\ r[1]
    /\ r[3] = c
    /\ Cardinality(r[2]) = SbN(inst)

\* main: the task sequence, the labels below n
Salbp1_sequence(inst, labels) ==
    SelectSeq(labels, LAMBDA i : i < SbN(inst))

SbInit ==
    /\ \E n \in 0..SbMaxTasks : instance \in SbInstances(n)
    /\ args = None
    /\ model = None
    /\ state = None
    /\ transitions = <<>>
    /\ cost = 0
    /\ verdict = None
    /\ pc = "read"
    /\ DrvIdle

\* main: let salbp1 = Salbp1(instance.clone())
SbPrepare ==
    /\ pc = "read"
    /\ DrvIdle
    /\ model' = instance
    /\ state' = Salbp1_get_target(instance)
    /\ pc' = "search"
    /\ UNCHANGED <<instance, args, transitions, cost, verdict, drvVars>>

\* one transition of the search: a successor of the current state is followed; a
\* path that completes has at most two labels for every task
SbTransition ==
    /\ pc = "search"
    /\ Salbp1_get_base_cost(state) = None
    /\ Len(transitions) < 2 * SbMaxTasks
    /\ LET succs == Salbp1_get_successors(model, state) IN
       \E k \in 1..Len(succs) :
          /\ state' = succs[k][1]
          /\ cost' = cost + succs[k][2]
          /\ transitions' = Append(transitions, succs[k][3])
    /\ UNCHANGED <<instance, args, model, verdict, pc, drvVars>>

\* the path ends in a base case: main validates the task sequence
SbValidate ==
    /\ pc = "search"
    /\ IsSome(Salbp1_get_base_cost(state))
    /\ cost' = cost + Unwrap(Salbp1_get_base_cost(state))
    /\ verdict' = Some(Salbp1_validate(instance, Salbp1_sequence(instance, transitions), cost'))
    /\ pc' = "done"
    /\ UNCHANGED <<instance, args, model, state, transitions, drvVars>>

SbNext == SbPrepare \/ SbTransition \/ SbValidate

SbSpec == SbInit /\ [][SbNext]_vars

\* the number of open-station transitions on the path
SbOpened == Len(SelectSeq(transitions, LAMBDA i : i = SbN(instance)))

\* every task appears once in the sequence, after all its predecessors
SbPrecedenceOrder(inst, seq) ==
    /\ Len(seq) = SbN(inst)
    /\ \A i \in 0..(SbN(inst) - 1) : \E k \in 1..Len(seq) :
          /\ seq[k] = i
          /\ \A p \in inst.predecessors[i] : \E j \in 1..(k - 1) : seq[j] = p

\* C19: for every complete path of the SALBP-1 model, the task sequence without the
\* open-station label n is accepted by the validator with the path's cost: every task
\* appears once after its predecessors, and the validator opens as many stations as
\* the path has open-station transitions.
C19_SalbpPathValid ==
    pc = "done" =>
        LET seq == Salbp1_sequence(instance, transitions) IN
        /\ verdict = Some(TRUE)
        /\ SbPrecedenceOrder(instance, seq)
        /\ Salbp1_validate_from(instance, seq, 0, {}, 0)[3] = SbOpened
        /\ cost = SbOpened

\* a complete path with precedence, two stations and a task scheduled in an open station
C19_Witness ==
    /\ pc = "done"
    /\ verdict = Some(TRUE)
    /\ SbN(instance) = 3
    /\ \E i \in DOMAIN instance.predecessors : instance.predecessors[i] # {}
    /\ SbOpened = 2
    /\ cost = 2

(***************************************************************************)
(*                       CVRP (cvrp_rpid.rs, lib.rs)                       *)
(***************************************************************************)
\* bounds of the enumerated CVRP instances
CvMaxNodes == 3
CvMaxDist == 2
CvMaxCapacity == 2
CvMaxVehicles == 3

\* the instance RoundedInstance::new produces: a full distance matrix with None on
\* the diagonal (w gives the other entries), a depot without demand, customers with
\* the demands q, and the vehicle limit k read from the file name
CvInstance(n, k, depot, capacity, q, w) ==
    [n_vehicles |-> k,
     nodes |-> [i \in 0..(n - 1) |-> i + 1],
     demands |-> [i \in 0..(n - 1) |-> IF i = depot THEN 0 ELSE q[i]],
     depot |-> depot,
     capacity |-> capacity,
     distances |-> [i \in 0..(n - 1) |-> [j \in 0..(n - 1) |->
                      IF i = j THEN None ELSE Some(w[<<i, j>>])]]]

\* self.instance.nodes.len()
CvN(inst) == Cardinality(DOMAIN inst.nodes)

\* RoundedInstance::reduce_edges
Cvrp_reduce_edges(inst) ==
    [inst EXCEPT !.distances =
        [i \in 0..(CvN(inst) - 1) |-> [j \in 0..(CvN(inst) - 1) |->
            IF IsSome(inst.distances[i][j]) /\ inst.demands[i] + inst.demands[j] > inst.capacity
            THEN None ELSE inst.distances[i][j]]]]

\* Cvrp::from: the instance, the vehicle limit and the cheapest edge into and out of
\* every node, still wrapped: from unwraps them
Cvrp_from(inst) ==
    LET n == CvN(inst) IN
    [instance |-> inst,
     n_vehicles |-> inst.n_vehicles,
     min_to |-> [j \in 0..(n - 1) |->
        min_with_option({ Unwrap(inst.distances[i][j]) :
                          i \in { i \in 0..(n - 1) : IsSome(inst.distances[i][j]) } })],
     min_from |-> [i \in 0..(n - 1) |->
        min_with_option({ Unwrap(inst.distances[i][j]) :
                          j \in { j \in 0..(n - 1) : IsSome(inst.distances[i][j]) } })]]

\* Cvrp::from: .map(|x| x.unwrap()) panics on a node without an edge in or out
Cvrp_from_panics(inst) ==
    LET m == Cvrp_from(inst) IN
    \E i \in DOMAIN m.min_to : m.min_to[i] = None \/ m.min_from[i] = None

\* the sum of the demands of a set of nodes
Cvrp_demand(inst, S) == SumOver(S, inst.demands)

\* Cvrp::check_feasibility
Cvrp_check_feasibility(m, s) ==
    LET remaining_demand == Cvrp_demand(m.instance, s.unvisited) IN
    (m.n_vehicles - s.n_vehicles + 1) * m.instance.capacity >= s.load + remaining_demand

\* Cvrp::get_target
Cvrp_get_target(m) ==
    [unvisited |-> (0..(CvN(m.instance) - 1)) \ {m.instance.depot},
     current |-> m.instance.depot, load |-> 0, n_vehicles |-> 1]

\* a direct visit that does not compare the load with the capacity
Cvrp_direct_unchecked(m, s, next) ==
    IF ~IsSome(m.instance.distances[s.current][next]) THEN None
    ELSE LET successor == [unvisited |-> s.unvisited \ {next}, current |-> next,
                           load |-> s.load + m.instance.demands[next],
                           n_vehicles |-> s.n_vehicles]
         IN IF Cvrp_check_feasibility(m, successor)
            THEN Some(<<successor, Unwrap(m.instance.distances[s.current][next]), next>>)
            ELSE None

\* get_successors: the direct visit of next, None when it is filtered out
Cvrp_direct(m, s, next) ==
    IF ~IsSome(m.instance.distances[s.current][next]) THEN None
    ELSE LET load == s.load + m.instance.demands[next]
             successor == [unvisited |-> s.unvisited \ {next}, current |-> next,
                           load |-> load, n_vehicles |-> s.n_vehicles]
         IN IF load <= m.instance.capacity
            THEN IF Cvrp_check_feasibility(m, successor)
                 THEN Some(<<successor, Unwrap(m.instance.distances[s.current][next]), next>>)
                 ELSE None
            ELSE None

\* get_successors: the visit of next via the depot, None when it is filtered out
Cvrp_via_depot(m, s, next) ==
    LET depot == m.instance.depot IN
    IF IsSome(m.instance.distances[s.current][depot]) /\ IsSome(m.instance.distances[depot][next])
    THEN LET successor == [unvisited |-> s.unvisited \ {next}, current |-> next,
                           load |-> m.instance.demands[next],
                           n_vehicles |-> s.n_vehicles + 1]
         IN IF Cvrp_check_feasibility(m, successor)
            THEN Some(<<successor,
                        Unwrap(m.instance.distances[s.current][depot])
                          + Unwrap(m.instance.distances[depot][next]),
                        CvN(m.instance) + next>>)
            ELSE None
    ELSE None

\* Cvrp::get_successors: the direct visits, then the visits via the depot
Cvrp_get_successors(m, s) ==
    LET order == Ones(s.unvisited)
        direct == SelectSeq([k \in 1..Len(order) |-> Cvrp_direct(m, s, order[k])], IsSome)
        via == IF s.n_vehicles < m.n_vehicles
               THEN SelectSeq([k \in 1..Len(order) |-> Cvrp_via_depot(m, s, order[k])], IsSome)
               ELSE <<>>
        successors == direct \o via
    IN [k \in 1..Len(successors) |-> Unwrap(successors[k])]

\* Cvrp::get_base_cost
Cvrp_get_base_cost(m, s) ==
    IF s.unvisited = {} THEN m.instance.distances[s.current][m.instance.depot] ELSE None

RECURSIVE Cvrp_tours_from(_, _, _)
\* main: the tours decoded from the labels, a label of n or more starts a tour
Cvrp_tours_from(n, labels, tours) ==
    IF labels = <<>> THEN tours
    ELSE LET transition == Head(labels) IN
         IF transition >= n
         THEN Cvrp_tours_from(n, Tail(labels), Append(tours, <<transition - n>>))
         ELSE Cvrp_tours_from(n, Tail(labels),
                [tours EXCEPT ![Len(tours)] = Append(tours[Len(tours)], transition)])

\* main: let mut tours = vec![vec![]]
Cvrp_tours(inst, labels) == Cvrp_tours_from(CvN(inst), labels, << <<>> >>)

RECURSIVE Cvrp_validate_tour(_, _, _, _, _, _)
\* validate: the loop over the nodes of a tour; <<ok, visited, recomputed_cost, current>>
Cvrp_validate_tour(inst, t, current, load, visited, recomputed_cost) ==
    IF t = <<>> THEN <<TRUE, visited, recomputed_cost, current>>
    ELSE LET node == Head(t) IN
         IF node >= CvN(inst) THEN <<FALSE, visited, recomputed_cost, current>>
         ELSE IF node \in visited THEN <<FALSE, visited, recomputed_cost, current>>
         ELSE IF ~IsSome(inst.distances[current][node])
              THEN <<FALSE, visited, recomputed_cost, current>>
         ELSE IF load + inst.demands[node] > inst.capacity
              THEN <<FALSE, visited, recomputed_cost, current>>
         ELSE Cvrp_validate_tour(inst, Tail(t), node, load + inst.demands[node],
                                 visited \cup {node},
                                 recomputed_cost + Unwrap(inst.distances[current][node]))

RECURSIVE Cvrp_validate_tours(_, _, _, _)
\* validate: the loop over the tours; <<ok, recomputed_cost>>
Cvrp_validate_tours(inst, tours, visited, recomputed_cost) ==
    IF tours = <<>> THEN <<TRUE, recomputed_cost>>
    ELSE LET r == Cvrp_validate_tour(inst, Head(tours), inst.depot, 0, visited, recomputed_cost) IN
         IF ~r[1] THEN <<FALSE, r[3]>>
         ELSE IF r[4] # inst.depot
              THEN IF IsSome(inst.distances[r[4]][inst.depot])
                   THEN Cvrp_validate_tours(inst, Tail(tours), r[2],
                                            r[3] + Unwrap(inst.distances[r[4]][inst.depot]))
                   ELSE <<FALSE, r[3]>>
              ELSE Cvrp_validate_tours(inst, Tail(tours), r[2], r[3])

\* RoundedInstance::validate
Cvrp_validate(inst, tours, c) ==
    IF Len(tours) > inst.n_vehicles THEN FALSE
    ELSE IF SumOver(DOMAIN tours, [k \in DOMAIN tours |-> Len(tours[k])]) # CvN(inst) - 1
         THEN FALSE
    ELSE LET r == Cvrp_validate_tours(inst, tours, {}, 0) IN
         r[1] /\ r[2] = c

CvInit ==
    /\ \E n \in 2..CvMaxNodes, k \in 1..CvMaxVehicles, capacity \in 1..CvMaxCapacity :
       \E depot \in 0..(n - 1) :
       \E q \in [(0..(n - 1)) \ {depot} -> 1..(CvMaxCapacity + 1)],
          w \in [{ e \in (0..(n - 1)) \X (0..(n - 1)) : e[1] # e[2] } -> 1..CvMaxDist] :
          instance = CvInstance(n, k, depot, capacity, q, w)
    /\ args \in [reduce_edges : BOOLEAN]
    /\ model = None
    /\ state = None
    /\ transitions = <<>>
    /\ cost = 0
    /\ verdict = None
    /\ pc = "read"
    /\ DrvIdle

\* main: reduce the edges when asked to and build the model
CvPrepare ==
    /\ pc = "read"
    /\ DrvIdle
    /\ LET inst == IF args.reduce_edges THEN Cvrp_reduce_edges(instance) ELSE instance IN
       /\ instance' = inst
       /\ model' = Cvrp_from(inst)
       /\ state' = Cvrp_get_target(Cvrp_from(inst))
       /\ pc' = IF Cvrp_from_panics(inst) THEN "panic" ELSE "search"
    /\ UNCHANGED <<args, transitions, cost, verdict, drvVars>>

\* one transition of the search: a successor of the current state is followed
CvTransition ==
    /\ pc = "search"
    /\ Cvrp_get_base_cost(model, state) = None
    /\ LET succs == Cvrp_get_successors(model, state) IN
       \E k \in 1..Len(succs) :
          /\ state' = succs[k][1]
          /\ cost' = cost + succs[k][2]
          /\ transitions' = Append(transitions, succs[k][3])
    /\ UNCHANGED <<instance, args, model, verdict, pc, drvVars>>

\* the path ends in a base case: main decodes the tours and validates them
CvValidate ==
    /\ pc = "search"
    /\ IsSome(Cvrp_get_base_cost(model, state))
    /\ cost' = cost + Unwrap(Cvrp_get_base_cost(model, state))
    /\ verdict' = Some(Cvrp_validate(instance, Cvrp_tours(instance, transitions), cost'))
    /\ pc' = "done"
    /\ UNCHANGED <<instance, args, model, state, transitions, drvVars>>

CvNext == CvPrepare \/ CvTransition \/ CvValidate

CvSpec == CvInit /\ [][CvNext]_vars

\* a state of the CVRP model has been built
CvSearching == pc \in {"search", "done"}

\* no customer asks for more than a vehicle carries
CvProper == \A i \in DOMAIN instance.demands : instance.demands[i] <= instance.capacity

RECURSIVE Golomb_optimum_from(_, _)
\* the minimum cost of a complete path from s on, None when there is none
Golomb_optimum_from(m, s) ==
    LET base == Golomb_get_base_cost(m, s) IN
    IF IsSome(base) THEN base
    ELSE LET succs == Golomb_get_successors(m, s)
             rest == [k \in 1..Len(succs) |-> Golomb_optimum_from(m, succs[k][1])]
             costs == { succs[k][2] + Unwrap(rest[k]) :
                          k \in { k \in 1..Len(succs) : IsSome(rest[k]) } }
         IN IF costs = {} THEN None
            ELSE Some(CHOOSE x \in costs : \A y \in costs : x <= y)

\* the set of marks S, with the mark 0, is a ruler: all differences are distinct
GrDistinctDifferences(S) ==
    LET M == S \cup {0}
        P == { p \in M \X M : p[1] < p[2] }
    IN \A p, q \in P : p # q => p[2] - p[1] # q[2] - q[1]

\* a ruler with n marks and a largest mark of at most len exists
GrRulerWithin(n, len) ==
    /\ len >= 0
    /\ \E S \in SUBSET (1..len) : Cardinality(S) = n - 1 /\ GrDistinctDifferences(S)

\* C21: for every n from 1 to 5 the minimum cost over the complete paths of the
\* Golomb ruler model is the length KNOWN_OPTIMAL_COSTS stores for n marks (11 for
\* n = 5), which is the length of a shortest ruler: no complete path is shorter and
\* the upper bound on the next mark cuts off no optimal ruler.
C21_GolombOptimumIsKnown ==
    /\ (pc = "search" /\ state = Golomb_get_target(model)) =>
          /\ Golomb_optimum_from(model, state) = Some(KNOWN_OPTIMAL_COSTS[instance + 1])
          /\ GrRulerWithin(instance, KNOWN_OPTIMAL_COSTS[instance + 1])
          /\ ~GrRulerWithin(instance, KNOWN_OPTIMAL_COSTS[instance + 1] - 1)
          /\ instance = 5 => Golomb_optimum_from(model, state) = Some(11)
    /\ pc \in {"done", "panic"} => cost >= KNOWN_OPTIMAL_COSTS[instance + 1]

\* C21's case: a complete path of five marks with the optimal length 11
C21_Witness ==
    /\ pc = "done"
    /\ instance = 5
    /\ cost = 11
    /\ verdict = Some(TRUE)

(***************************************************************************)
(*                Graph-clear (graph_clear_rpid.rs, lib.rs)                *)
(***************************************************************************)
\* bounds of the enumerated graph-clear instances
GcMaxNodes == 3
GcMaxNodeWeight == 2
GcMaxEdgeWeight == 1

\* the instances read_from_file produces for n nodes: a weight for every node and an
\* n by n matrix of edge weights, read as they are written
GcInstances(n) ==
    [node_weights : [0..(n - 1) -> 0..GcMaxNodeWeight],
     edge_weights : [0..(n - 1) -> [0..(n - 1) -> 0..GcMaxEdgeWeight]]]

\* the instance with node weights 3 and 2 joined by an edge of weight 4
GcExample ==
    [node_weights |-> [i \in 0..1 |-> IF i = 0 THEN 3 ELSE 2],
     edge_weights |-> [i \in 0..1 |-> [j \in 0..1 |-> IF i = j THEN 0 ELSE 4]]]

\* self.instance.node_weights.len()
GcN(inst) == Cardinality(DOMAIN inst.node_weights)

\* GraphClear::from: the instance and the sum of every row of edge_weights
GraphClear_from(inst) ==
    [instance |-> inst,
     edge_weight_sum |-> [i \in 0..(GcN(inst) - 1) |->
                             SumOver(0..(GcN(inst) - 1), inst.edge_weights[i])]]

\* GraphClear::get_target: no node is clean
GraphClear_get_target(m) == {}

\* clean.zeroes()
GraphClear_zeroes(m, clean) == (0..(GcN(m.instance) - 1)) \ clean

\* get_successors: the weight of cleaning node i
GraphClear_weight(m, clean, i) ==
    m.instance.node_weights[i]
    + m.edge_weight_sum[i]
    + SumOver(clean,
        [j \in clean |->
           SumOver(GraphClear_zeroes(m, clean) \ {i},
                   [k \in GraphClear_zeroes(m, clean) \ {i} |-> m.instance.edge_weights[j][k]])])

\* GraphClear::get_successors: the sequence of <<successor, weight, label>>
GraphClear_get_successors(m, clean) ==
    LET order == Ones(GraphClear_zeroes(m, clean)) IN
    [k \in 1..Len(order) |->
        <<clean \cup {order[k]}, GraphClear_weight(m, clean, order[k]), order[k]>>]

\* GraphClear::get_base_cost
GraphClear_get_base_cost(m, clean) ==
    IF clean = 0..(GcN(m.instance) - 1) THEN Some(0) ELSE None

\* costs combined by addition
GraphClear_combine_cost_weights_sum(a, b) == a + b

\* GraphClear::combine_cost_weights
GraphClear_combine_cost_weights(a, b) == Max(a, b)

RECURSIVE GraphClear_validate_from(_, _, _, _)
\* Instance::validate: the loop over the solution; <<ok, recomputed_cost>>
GraphClear_validate_from(inst, rest, clean, recomputed_cost) ==
    IF rest = <<>> THEN <<TRUE, recomputed_cost>>
    ELSE LET i == Head(rest)
             n == GcN(inst)
         IN IF i >= n THEN <<FALSE, recomputed_cost>>
            ELSE IF i \in clean THEN <<FALSE, recomputed_cost>>
            ELSE LET zeroes == (0..(n - 1)) \ clean
                     n_robots ==
                        inst.node_weights[i]
                        + SumOver(0..(n - 1), inst.edge_weights[i])
                        + SumOver(clean \X (zeroes \ {i}),
                                  [e \in clean \X (zeroes \ {i}) |->
                                     inst.edge_weights[e[1]][e[2]]])
                 IN GraphClear_validate_from(inst, Tail(rest), clean \cup {i},
                                             Max(recomputed_cost, n_robots))

\* Instance::validate
GraphClear_validate(inst, solution, c) ==
    IF Len(solution) # GcN(inst) THEN FALSE
    ELSE LET r == GraphClear_validate_from(inst, solution, {}, 0) IN
         r[1] /\ r[2] = c

GcInit ==
    /\ \/ \E n \in 0..GcMaxNodes : instance \in GcInstances(n)
       \/ instance = GcExample
    /\ args = None
    /\ model = None
    /\ state = None
    /\ transitions = <<>>
    /\ cost = 0
    /\ verdict = None
    /\ pc = "read"
    /\ DrvIdle

\* main: GraphClear::from(instance.clone()) and the target state
GcPrepare ==
    /\ pc = "read"
    /\ DrvIdle
    /\ model' = GraphClear_from(instance)
    /\ state' = GraphClear_get_target(model')
    /\ pc' = "search"
    /\ UNCHANGED <<instance, args, transitions, cost, verdict, drvVars>>

\* one transition of the search: a successor of the current state is followed
GcTransition ==
    /\ pc = "search"
    /\ GraphClear_get_base_cost(model, state) = None
    /\ LET succs == GraphClear_get_successors(model, state) IN
       \E k \in 1..Len(succs) :
          /\ state' = succs[k][1]
          /\ cost' = GraphClear_combine_cost_weights(cost, succs[k][2])
          /\ transitions' = Append(transitions, succs[k][3])
    /\ UNCHANGED <<instance, args, model, verdict, pc, drvVars>>

\* the path ends in a base case: main validates the schedule
GcValidate ==
    /\ pc = "search"
    /\ IsSome(GraphClear_get_base_cost(model, state))
    /\ cost' = GraphClear_combine_cost_weights(cost, Unwrap(GraphClear_get_base_cost(model, state)))
    /\ verdict' = Some(GraphClear_validate(instance, transitions, cost'))
    /\ pc' = "done"
    /\ UNCHANGED <<instance, args, model, state, transitions, drvVars>>

GcNext == GcPrepare \/ GcTransition \/ GcValidate

GcSpec == GcInit /\ [][GcNext]_vars

\* the nodes cleaned before step k of the order
GcCleanBefore(order, k) == { order[j] : j \in 1..(k - 1) }

\* the robots step k of the order needs: the weight of the cleaned node, the weights
\* of its incident edges, and the weights of the edges from a clean node to a
\* contaminated node other than the cleaned one
GcStepRobots(inst, order, k) ==
    LET i == order[k]
        n == GcN(inst)
        clean == GcCleanBefore(order, k)
        frontier == { e \in clean \X (0..(n - 1)) : e[2] \notin clean /\ e[2] # i }
    IN inst.node_weights[i]
       + SumOver(0..(n - 1), inst.edge_weights[i])
       + SumOver(frontier, [e \in frontier |-> inst.edge_weights[e[1]][e[2]]])

\* the largest of the steps' robots, 0 for the empty order
GcBottleneck(inst, order) ==
    LET S == { GcStepRobots(inst, order, k) : k \in 1..Len(order) } \cup {0} IN
    CHOOSE x \in S : \A y \in S : y <= x

\* C22: for every complete path (an order cleaning all nodes) the max-combined cost
\* is the largest, over the steps, of the cleaned node's weight plus its incident
\* edges plus the edges from clean to other contaminated nodes, and the validator
\* recomputes the same value; node weights 3 and 2 joined by an edge of weight 4
\* cost 7 in the order 0, 1.
C22_GraphClearBottleneck ==
    pc = "done" =>
        /\ Len(transitions) = GcN(instance)
        /\ { transitions[k] : k \in 1..Len(transitions) } = 0..(GcN(instance) - 1)
        /\ cost = GcBottleneck(instance, transitions)
        /\ GraphClear_validate_from(instance, transitions, {}, 0) = <<TRUE, cost>>
        /\ verdict = Some(TRUE)
        /\ (instance = GcExample /\ transitions = <<0, 1>>) => cost = 7

\* C22's case: the order 0, 1 of the example, accepted with cost 7, the bottleneck
\* being the first step
C22_Witness ==
    /\ pc = "done"
    /\ instance = GcExample
    /\ transitions = <<0, 1>>
    /\ cost = 7
    /\ GcStepRobots(instance, transitions, 2) = 6
    /\ verdict = Some(TRUE)

(***************************************************************************)
(*                   Knapsack: the optimum of the model                    *)
(***************************************************************************)
\* the total of f over the items of S (positions from 1)
KnTotal(f, S) == SumOver(S, [i \in S |-> f[i]])

\* the largest total profit of a set of items whose total weight is at most the capacity
KnBestSubset(inst) ==
    LET fits == { S \in SUBSET (1..Len(inst.profits)) :
                    KnTotal(inst.weights, S) <= inst.capacity }
        totals == { KnTotal(inst.profits, S) : S \in fits }
    IN CHOOSE x \in totals : \A y \in totals : y <= x

\* the items packed along the path, as positions from 1
KnPacked == { k \in 1..Len(transitions) : transitions[k] = 0 }

\* C23: the maximum profit over the complete paths of the knapsack model is the
\* largest total profit of an item subset within the capacity, the items packed
\* along a complete path never exceed the capacity, and for profits 60 100 120,
\* weights 10 20 30 and capacity 50 the maximum is 220, reached by items 1 and 2.
C23_KnapsackOptimumIsBestSubset ==
    /\ (pc = "search" /\ transitions = <<>>) =>
          /\ Cap_optimum(KnCap) = Some(KnBestSubset(instance))
          /\ KnAtExampleTarget => Cap_optimum(KnCap) = Some(220)
    /\ pc = "done" =>
          /\ KnTotal(instance.weights, KnPacked) <= instance.capacity
          /\ cost = KnTotal(instance.profits, KnPacked)
          /\ cost <= KnBestSubset(instance)
          /\ verdict = Some(TRUE)

\* C23's case: the complete path of the example that packs items 1 and 2 for 220
C23_Witness ==
    /\ pc = "done"
    /\ instance.profits = KnExample.profits
    /\ instance.capacity = KnExample.capacity
    /\ Knapsack_packed_items(transitions) = <<1, 2>>
    /\ cost = 220
    /\ cost = KnBestSubset(instance)
    /\ verdict = Some(TRUE)

(***************************************************************************)
(*          Maximum independent set (misp_rpid.rs, misp/src/lib.rs)        *)
(***************************************************************************)
\* bound: the largest number of vertices of the enumerated graphs
MiMaxVertices == 4

\* the input files with n vertices: the "p edge n" line and "e u v" lines, u < v,
\* vertices numbered from 1
MiFiles(n) ==
    [n : {n}, edges : SUBSET { e \in (1..n) \X (1..n) : e[1] < e[2] }]

\* the file of the cycle 1 2 3 4 5
MiExample ==
    [n |-> 5, edges |-> {<<1, 2>>, <<2, 3>>, <<3, 4>>, <<4, 5>>, <<1, 5>>}]

\* Instance::read_from_file: adjacency_list is resized to the largest vertex an edge
\* names, not to n; every list is sorted and deduplicated
Misp_read_from_file(f) ==
    LET ends == { e[1] : e \in f.edges } \cup { e[2] : e \in f.edges }
        len == IF ends = {} THEN 0 ELSE CHOOSE x \in ends : \A y \in ends : y <= x
    IN [n |-> f.n,
        adjacency_list |->
           [i \in 0..(len - 1) |->
              { e[2] - 1 : e \in { e \in f.edges : e[1] - 1 = i } }
              \cup { e[1] - 1 : e \in { e \in f.edges : e[2] - 1 = i } }]]

\* Misp::get_target
Misp_get_target(inst) == [candidates |-> 0..(inst.n - 1), current |-> 0]

\* get_successors: self.0.adjacency_list[state.current] is out of bounds
Misp_get_successors_panics(inst, s) ==
    s.current \in s.candidates /\ s.current \notin DOMAIN inst.adjacency_list

\* successors that keep the neighbours of an included vertex as candidates
Misp_get_successors_keeping_neighbors(inst, s) ==
    IF s.current \in s.candidates
    THEN << <<[candidates |-> s.candidates \ {s.current}, current |-> s.current + 1], 1, 0>>,
            <<[candidates |-> s.candidates \ {s.current}, current |-> s.current + 1], 0, 1>> >>
    ELSE << <<[candidates |-> s.candidates, current |-> s.current + 1], 0, 1>> >>

\* Misp::get_successors, when it does not panic
Misp_get_successors(inst, s) ==
    IF s.current \in s.candidates
    THEN LET candidates_exclude == s.candidates \ {s.current}
             candidates_include == candidates_exclude \ inst.adjacency_list[s.current]
         IN << <<[candidates |-> candidates_include, current |-> s.current + 1], 1, 0>>,
               <<[candidates |-> candidates_exclude, current |-> s.current + 1], 0, 1>> >>
    ELSE << <<[candidates |-> s.candidates, current |-> s.current + 1], 0, 1>> >>

\* Misp::get_base_cost
Misp_get_base_cost(inst, s) == IF s.current = inst.n THEN Some(0) ELSE None

\* main: the vertices whose transition label is 0, by position
Misp_independent_set(labels) ==
    LET included == SelectSeq([k \in 1..Len(labels) |-> <<k - 1, labels[k]>>],
                              LAMBDA x : x[2] = 0)
    IN [k \in 1..Len(included) |-> included[k][1]]

\* tuple_combinations: the pairs of positions a < b of the independent set
Misp_pairs(independent_set) ==
    { p \in (1..Len(independent_set)) \X (1..Len(independent_set)) : p[1] < p[2] }

\* validate: self.adjacency_list[i] is out of bounds
Misp_validate_panics(inst, independent_set) ==
    \E p \in Misp_pairs(independent_set) :
        /\ independent_set[p[1]] < inst.n
        /\ independent_set[p[1]] \notin DOMAIN inst.adjacency_list

\* Instance::validate, when it does not panic
Misp_validate(inst, independent_set) ==
    \A p \in Misp_pairs(independent_set) :
        LET i == independent_set[p[1]]
            j == independent_set[p[2]]
        IN /\ i < inst.n
           /\ j < inst.n
           /\ i # j
           /\ j \notin inst.adjacency_list[i]

\* main: the test that prints "The solution is valid."
Misp_main_valid(inst, independent_set, c) ==
    Misp_validate(inst, independent_set) /\ Len(independent_set) = c

RECURSIVE Misp_optimum_from(_, _)
\* the maximum cost of a complete path from s on, None when there is none
Misp_optimum_from(inst, s) ==
    LET base == Misp_get_base_cost(inst, s) IN
    IF IsSome(base) THEN base
    ELSE IF Misp_get_successors_panics(inst, s) THEN None
    ELSE LET succs == Misp_get_successors(inst, s)
             rest == [k \in 1..Len(succs) |-> Misp_optimum_from(inst, succs[k][1])]
             costs == { succs[k][2] + Unwrap(rest[k]) :
                          k \in { k \in 1..Len(succs) : IsSome(rest[k]) } }
         IN IF costs = {} THEN None
            ELSE Some(CHOOSE x \in costs : \A y \in costs : y <= x)

MiInit ==
    /\ \/ \E n \in 1..MiMaxVertices : args \in MiFiles(n)
       \/ args = MiExample
    /\ instance = None
    /\ model = None
    /\ state = None
    /\ transitions = <<>>
    /\ cost = 0
    /\ verdict = None
    /\ pc = "read"
    /\ DrvIdle

\* main: read_from_file, Misp(instance.clone()) and the target state
MiPrepare ==
    /\ pc = "read"
    /\ DrvIdle
    /\ instance' = Misp_read_from_file(args)
    /\ model' = instance'
    /\ state' = Misp_get_target(instance')
    /\ pc' = "search"
    /\ UNCHANGED <<args, transitions, cost, verdict, drvVars>>

\* one transition of the search: a successor of the current state is followed, or
\* get_successors panics
MiTransition ==
    /\ pc = "search"
    /\ Misp_get_base_cost(model, state) = None
    /\ IF Misp_get_successors_panics(model, state)
       THEN pc' = "panic" /\ UNCHANGED <<state, cost, transitions>>
       ELSE /\ LET succs == Misp_get_successors(model, state) IN
               \E k \in 1..Len(succs) :
                  /\ state' = succs[k][1]
                  /\ cost' = cost + succs[k][2]
                  /\ transitions' = Append(transitions, succs[k][3])
            /\ pc' = pc
    /\ UNCHANGED <<instance, args, model, verdict, drvVars>>

\* the path ends in a base case: main validates the independent set
MiValidate ==
    /\ pc = "search"
    /\ IsSome(Misp_get_base_cost(model, state))
    /\ cost' = cost + Unwrap(Misp_get_base_cost(model, state))
    /\ IF Misp_validate_panics(instance, Misp_independent_set(transitions))
       THEN pc' = "panic" /\ UNCHANGED verdict
       ELSE /\ verdict' = Some(Misp_main_valid(instance, Misp_independent_set(transitions), cost'))
            /\ pc' = "done"
    /\ UNCHANGED <<instance, args, model, state, transitions, drvVars>>

MiNext == MiPrepare \/ MiTransition \/ MiValidate

MiSpec == MiInit /\ [][MiNext]_vars

\* the vertices u and v of the file (numbered from 1) are joined by an edge
MiAdjacent(f, u, v) == <<u, v>> \in f.edges \/ <<v, u>> \in f.edges

\* the size of a maximum independent set of the graph of the file
MiMaxIndependent(f) ==
    LET sizes == { Cardinality(S) : S \in { S \in SUBSET (1..f.n) :
                      \A u, v \in S : ~MiAdjacent(f, u, v) } }
    IN CHOOSE x \in sizes : \A y \in sizes : y <= x

\* the vertices selected along the path, numbered from 1 as in the file
MiSelected == { k \in 1..Len(transitions) : transitions[k] = 0 }

\* the last vertex of the file has an edge: adjacency_list has an entry for every vertex
MiLastVertexHasEdge(f) == \E e \in f.edges : e[2] = f.n

OpMaxVertices == 3
OpMaxDist == 2
OpMaxTime == 3
OpMaxProfit == 2

\* a vector indexed from 0, as the Vec of the source
OpVec(seq) == [v \in 0..(Len(seq) - 1) |-> seq[v + 1]]

OpPairs(n) == {p \in (0..(n - 1)) \X (0..(n - 1)) : p[1] < p[2]}

\* a rounded instance over n vertices with symmetric distances w[<<i, j>>], i < j,
\* and no service time
OpInstance(n, w, profits, opening, closing) ==
    [n |-> n,
     distances |-> [i \in 0..(n - 1) |-> [j \in 0..(n - 1) |->
        IF i = j THEN 0 ELSE IF i < j THEN w[<<i, j>>] ELSE w[<<j, i>>]]],
     profits |-> profits, opening |-> opening, closing |-> closing]

\* two customers; the direct way from customer 1 back to the depot (3) is longer
\* than the way over customer 2 (1 + 1), as rounded distances allow
OpDetourExample ==
    OpInstance(3, [p \in OpPairs(3) |-> IF p = <<0, 1>> THEN 3 ELSE 1],
               OpVec(<<0, 1, 1>>), OpVec(<<0, 0, 0>>), OpVec(<<4, 2, 4>>))

\* three customers at distance 1 of each other; customer 1 closes at 1 and
\* customer 3 opens when the depot closes
OpWaitExample ==
    OpInstance(4, [p \in OpPairs(4) |-> 1],
               OpVec(<<0, 1, 1, 1>>), OpVec(<<0, 0, 0, 3>>), OpVec(<<3, 1, 3, 3>>))

RECURSIVE Optw_shortest_from(_, _, _)
\* compute_pairwise_shortest_path_costs: the passes k, k + 1, .., n - 1; the depot is
\* never an intermediate vertex and the diagonal is left as it is
Optw_shortest_from(d, k, n) ==
    IF k >= n THEN d
    ELSE Optw_shortest_from(
           [i \in 0..(n - 1) |-> [j \in 0..(n - 1) |->
              IF i # k /\ j # i /\ j # k /\ d[i][k] + d[k][j] < d[i][j]
              THEN d[i][k] + d[k][j] ELSE d[i][j]]], k + 1, n)

compute_pairwise_shortest_path_costs(weights) ==
    Optw_shortest_from(weights, 1, Cardinality(DOMAIN weights))

\* Optw::new
Optw_new(inst) ==
    [instance |-> inst,
     shortest_distances |-> compute_pairwise_shortest_path_costs(inst.distances)]

\* Optw::get_target
Optw_get_target(m) ==
    [unvisited |-> 1..(m.instance.n - 1), current |-> 0, time |-> 0]

\* the test of the first loop of get_successors: next cannot be reached in time
\* over a shortest path, or the depot cannot be reached in time after it
Optw_unreachable(m, s, next) ==
    LET shortest_time == s.time + m.shortest_distances[s.current][next] IN
    \/ shortest_time > m.instance.closing[next]
    \/ shortest_time + m.shortest_distances[next][0] > m.instance.closing[0]

\* the test of the second block: via cannot be visited directly
Optw_no_direct_visit(m, s, via) ==
    LET via_time == s.time + m.instance.distances[s.current][via] IN
    \/ via_time > m.instance.closing[via]
    \/ via_time + m.shortest_distances[via][0] > m.instance.closing[0]

\* a forced transition: next leaves unvisited, the vehicle stays where it is
Optw_remove(s, next) == [s EXCEPT !.unvisited = s.unvisited \ {next}]

\* a model that visits no customer
Optw_visit_never(m, s, next) == None

\* the visit of next as optw_dantzig_rpid generates it: the windows are tested
\* with the time at which the service starts
Optw_visit_after_waiting(m, s, next) ==
    LET time == Max(s.time + m.instance.distances[s.current][next], m.instance.opening[next]) IN
    IF time <= m.instance.closing[next]
       /\ time + m.shortest_distances[next][0] <= m.instance.closing[0]
    THEN Some(<<[unvisited |-> s.unvisited \ {next}, current |-> next, time |-> time],
                m.instance.profits[next], next>>)
    ELSE None

\* the visit of next as optw_rpid generates it: the windows are tested with the
\* arrival time, the service starts at the opening time at the earliest
Optw_visit(m, s, next) ==
    LET time == s.time + m.instance.distances[s.current][next] IN
    IF time <= m.instance.closing[next]
       /\ time + m.shortest_distances[next][0] <= m.instance.closing[0]
    THEN Some(<<[unvisited |-> s.unvisited \ {next}, current |-> next,
                 time |-> Max(time, m.instance.opening[next])],
                m.instance.profits[next], next>>)
    ELSE None

RECURSIVE Optw_filter_map(_)
\* filter_map(..).collect(): the Some values of a sequence of options
Optw_filter_map(opts) ==
    IF opts = <<>> THEN <<>>
    ELSE Head(opts) \o Optw_filter_map(Tail(opts))

\* Optw::get_successors of the binary a.binary: a forced removal of the first
\* unreachable customer, else a forced removal of the first customer when none
\* can be visited directly, else the visits
Optw_get_successors(m, a, s) ==
    LET n == m.instance.n
        ones == Ones(s.unvisited)
        gone == {k \in 1..Len(ones) : Optw_unreachable(m, s, ones[k])}
    IN IF gone # {}
       THEN LET next == ones[CHOOSE k \in gone : \A l \in gone : k <= l]
            IN <<<<Optw_remove(s, next), 0, n + next>>>>
       ELSE IF ones # <<>> /\ \A via \in s.unvisited : Optw_no_direct_visit(m, s, via)
       THEN <<<<Optw_remove(s, ones[1]), 0, 2 * n + ones[1]>>>>
       ELSE Optw_filter_map([k \in 1..Len(ones) |->
               IF a.binary = "optw_dantzig_rpid"
               THEN Optw_visit_after_waiting(m, s, ones[k])
               ELSE Optw_visit(m, s, ones[k])])

\* Optw::get_base_cost
Optw_get_base_cost(m, s) ==
    IF s.unvisited = {}
       /\ s.time + m.instance.distances[s.current][0] <= m.instance.closing[0]
    THEN Some(0) ELSE None

\* main: the tour is made of the labels below n
Optw_tour(inst, labels) == SelectSeq(labels, LAMBDA i : i < inst.n)

RECURSIVE Optw_validate_from(_, _, _, _, _)
\* RoundedInstance::validate, the loop over the tour from its k-th customer on, then
\* the return to the depot and the profit
Optw_validate_from(inst, solution, k, current, acc) ==
    IF k > Len(solution)
    THEN /\ acc.time + inst.distances[current][0] <= inst.closing[0]
         /\ acc.profit = acc.cost
    ELSE LET v == solution[k]
             time == Max(acc.time + inst.distances[current][v], inst.opening[v])
         IN /\ v <= inst.n
            /\ time <= inst.closing[v]
            /\ Optw_validate_from(inst, solution, k + 1, v,
                   [acc EXCEPT !.time = time, !.profit = @ + inst.profits[v]])

Optw_validate(inst, solution, c) ==
    Optw_validate_from(inst, solution, 1, 0, [time |-> 0, profit |-> 0, cost |-> c])

RECURSIVE Optw_optimum_from(_, _, _)
\* the best profit still collectable from s over its complete paths, None when
\* s has no complete path (the value an exhaustive search computes for s)
Optw_optimum_from(m, a, s) ==
    IF IsSome(Optw_get_base_cost(m, s)) THEN Optw_get_base_cost(m, s)
    ELSE LET succs == Optw_get_successors(m, a, s)
             vals == {k \in 1..Len(succs) : IsSome(Optw_optimum_from(m, a, succs[k][1]))}
             best == CHOOSE k \in vals : \A l \in vals :
                        succs[k][2] + Unwrap(Optw_optimum_from(m, a, succs[k][1]))
                        >= succs[l][2] + Unwrap(Optw_optimum_from(m, a, succs[l][1]))
         IN IF vals = {} THEN None
            ELSE Some(succs[best][2] + Unwrap(Optw_optimum_from(m, a, succs[best][1])))

RECURSIVE Optw_reachable_from(_, _, _)
\* the states the search can generate from s
Optw_reachable_from(m, a, s) ==
    LET succs == Optw_get_successors(m, a, s) IN
    {s} \cup UNION {Optw_reachable_from(m, a, succs[k][1]) : k \in 1..Len(succs)}

OpInit ==
    /\ \/ \E n \in 2..OpMaxVertices :
          \E w \in [OpPairs(n) -> 1..OpMaxDist],
             profits \in [0..(n - 1) -> 0..OpMaxProfit],
             opening \in [0..(n - 1) -> 0..OpMaxTime],
             closing \in [0..(n - 1) -> 0..OpMaxTime] :
             /\ profits[0] = 0 /\ opening[0] = 0
             /\ \A v \in 1..(n - 1) : profits[v] >= 1 /\ opening[v] <= closing[v]
             /\ instance = OpInstance(n, w, profits, opening, closing)
       \/ instance \in {OpDetourExample, OpWaitExample}
    /\ args \in [binary : {"optw_rpid", "optw_dantzig_rpid"}]
    /\ model = None
    /\ state = None
    /\ transitions = <<>>
    /\ cost = 0
    /\ verdict = None
    /\ pc = "read"
    /\ DrvIdle

\* main: Optw::new(rounded_instance.clone(), ..) and the target state
OpPrepare ==
    /\ pc = "read"
    /\ DrvIdle
    /\ args.binary \in {"optw_rpid", "optw_dantzig_rpid"}
    /\ instance.n >= 2 /\ DOMAIN instance.closing = 0..(instance.n - 1)
    /\ model' = Optw_new(instance)
    /\ state' = Optw_get_target(model')
    /\ pc' = "search"
    /\ UNCHANGED <<instance, args, transitions, cost, verdict, drvVars>>

\* one transition of the search: a successor of the current state is followed
OpTransition ==
    /\ pc = "search"
    /\ "shortest_distances" \in DOMAIN model
    /\ Optw_get_base_cost(model, state) = None
    /\ LET succs == Optw_get_successors(model, args, state) IN
       \E k \in 1..Len(succs) :
          /\ state' = succs[k][1]
          /\ cost' = cost + succs[k][2]
          /\ transitions' = Append(transitions, succs[k][3])
    /\ UNCHANGED <<instance, args, model, verdict, pc, drvVars>>

\* the path ends in a base case: main validates the tour
OpValidate ==
    /\ pc = "search"
    /\ "shortest_distances" \in DOMAIN model
    /\ IsSome(Optw_get_base_cost(model, state))
    /\ cost' = cost + Unwrap(Optw_get_base_cost(model, state))
    /\ verdict' = Some(Optw_validate(instance, Optw_tour(instance, transitions), cost'))
    /\ pc' = "done"
    /\ UNCHANGED <<instance, args, model, state, transitions, drvVars>>

OpNext == OpPrepare \/ OpTransition \/ OpValidate

OpSpec == OpInit /\ [][OpNext]_vars

\* the search is at a state of an OPTW model
OpSearching == pc = "search" /\ "shortest_distances" \in DOMAIN model

\* C25: from every reachable state of either OPTW model from which the depot is
\* still reached in time on the direct way, a state with a base cost can be
\* reached, so that no such state is a dead end
C25_OptwNoDeadEnd ==
    OpSearching /\ state.time + model.instance.distances[state.current][0]
                      <= model.instance.closing[0]
        => IsSome(Optw_optimum_from(model, args, state))

\* Dominance::get_key and Dominance::compare of both binaries: the earlier of two
\* states with the same key is the better one
Optw_get_key(s) == <<s.unvisited, s.current>>

Optw_compare(a, b) ==
    Some(IF b.time > a.time THEN "Greater" ELSE IF b.time < a.time THEN "Less" ELSE "Equal")

\* the states of the search that compare dominates by the current state
OpDominated ==
    {b \in Optw_reachable_from(model, args, Optw_get_target(model)) :
        /\ Optw_get_key(b) = Optw_get_key(state)
        /\ Optw_compare(state, b) = Some("Greater")}

\* C26: a reachable state a collects at least the profit of every reachable state b
\* with the same unvisited set and current vertex that it dominates (a.time < b.time),
\* and has a complete path whenever b has one
C26_OptwDominanceIsSound ==
    OpSearching =>
        \A b \in OpDominated :
            IsSome(Optw_optimum_from(model, args, b))
                => /\ IsSome(Optw_optimum_from(model, args, state))
                   /\ Unwrap(Optw_optimum_from(model, args, state))
                         >= Unwrap(Optw_optimum_from(model, args, b))

\* the successors and the base cost tsptw_dypdl and tsptw_mst_rpid give to the
\* current state of the search over the simplified instance
TmDypdlSuccessors == TsptwDypdl_get_successors(instance, Tsptw_new(instance), args, state)

TmMstSuccessors ==
    TsptwMst_get_successors(instance, TsptwMst_new(instance), args.minimize_makespan, state)

\* a state of the search of tsptw_dypdl or tsptw_mst_rpid, on an instance both
\* binaries can build their model of
TmTwinState ==
    /\ pc = "search"
    /\ args.binary \in {"tsptw_mst_rpid", "tsptw_dypdl"}
    /\ ~Tsptw_new_panics(instance)

\* C27: at every state either binary reaches, at every simplification level,
\* tsptw_dypdl and tsptw_mst_rpid have the same successors with the same weights
\* and the same base cost (hence the same complete paths with the same costs), and
\* no transition follows an edge that delete_edges removed
C27_DypdlRefinesMst ==
    TmTwinState =>
        /\ TmDypdlSuccessors = TmMstSuccessors
        /\ TsptwDypdl_get_base_cost(instance, state) = TsptwMst_get_base_cost(instance, state)
        /\ \A k \in 1..Len(TmDypdlSuccessors) :
              IsSome(instance.c[state.current][TmDypdlSuccessors[k][3]])

(***************************************************************************)
(*  Dominance in knapsack_rpid and tsptw_rpid: Equal comparisons and g     *)
(***************************************************************************)
RECURSIVE Knapsack_reachable_from(_, _, _)
\* the pairs <<state, g>> the search of knapsack_rpid can generate from s reached with g
Knapsack_reachable_from(inst, s, g) ==
    LET succs == Knapsack_get_successors(inst, s) IN
    {<<s, g>>} \cup UNION {Knapsack_reachable_from(inst, succs[k][1], g + succs[k][2]) :
                              k \in 1..Len(succs)}

RECURSIVE Tsptw_reachable_from(_, _, _, _, _)
\* the pairs <<state, g>> the search of tsptw_rpid can generate from s reached with g
Tsptw_reachable_from(inst, m, minimize_makespan, s, g) ==
    LET succs == Tsptw_get_successors(inst, m, minimize_makespan, s) IN
    {<<s, g>>} \cup UNION {Tsptw_reachable_from(inst, m, minimize_makespan,
                                                 succs[k][1], g + succs[k][2]) :
                              k \in 1..Len(succs)}

\* the runs of knapsack_rpid have no arguments of interest, those of tsptw_rpid do
DomKnapsack == DOMAIN args = {}

DomInit == KnInit \/ TsptwInit

DomNext ==
    \/ DomKnapsack /\ KnNext
    \/ ~DomKnapsack /\ TsptwNext

DomSpec == DomInit /\ [][DomNext]_vars

\* the pairs <<state, g>> of the search that share the dominance key of the current
\* state and that compare finds Equal to it
DomEqualPeers ==
    IF DomKnapsack
    THEN {p \in Knapsack_reachable_from(instance, Knapsack_get_target(instance), 0) :
            /\ Knapsack_get_key(p[1]) = Knapsack_get_key(state)
            /\ Knapsack_compare(state, p[1]) = Some("Equal")}
    ELSE {p \in Tsptw_reachable_from(instance, model, args.minimize_makespan,
                                     Tsptw_get_target(instance), 0) :
            /\ Tsptw_get_key(p[1]) = Tsptw_get_key(state)
            /\ Tsptw_compare(state, p[1]) = Some("Equal")}

\* C28 (as stated): in the knapsack and TSPTW models compare never returns Equal for
\* two reachable states that share a dominance key and were reached with different
\* accumulated cost g
C28_EqualOnlyForSameCost ==
    pc = "search" => \A p \in DomEqualPeers : p[2] = cost

\* C28 (amended): compare returns Equal exactly for the states of a key with the same
\* remaining capacity (knapsack) or the same time (TSPTW), whatever their g; only in
\* tsptw_rpid with minimize_makespan, where g is the time of the state, does an Equal
\* comparison imply the same g
C28_EqualOnlyForSameCostWithMakespan ==
    pc = "search" =>
        /\ \A p \in DomEqualPeers :
              IF DomKnapsack THEN p[1] = state
              ELSE p[1] = state /\ (args.minimize_makespan => p[2] = cost)
        /\ (~DomKnapsack /\ args.minimize_makespan) => cost = state.time
        /\ <<state, cost>> \in DomEqualPeers

\* a state of knapsack_rpid that compares Equal to a state of its key reached with
\* another profit
C28_Witness ==
    /\ pc = "search" /\ DomKnapsack
    /\ \E p \in DomEqualPeers : p[2] # cost

(***************************************************************************)
(*      Single machine total weighted tardiness: wt_separate_rpid          *)
(***************************************************************************)
WtMaxJobs == 3
WtMaxTime == 2
WtMaxDeadline == 3
WtMaxWeight == 2

\* the instances with n jobs 0 .. n - 1
WtInstances(n) ==
    [n : {n},
     processing_times : [0..(n - 1) -> 1..WtMaxTime],
     deadlines : [0..(n - 1) -> 0..WtMaxDeadline],
     weights : [0..(n - 1) -> 1..WtMaxWeight]]

WtJobs(inst) == 0..(inst.n - 1)

RECURSIVE Wt_reach(_, _, _)
\* has_path's breadth-first search: the jobs found from the jobs in open
Wt_reach(open, checked, successors) ==
    LET found == UNION {successors[u] : u \in open} IN
    IF found \subseteq checked THEN checked
    ELSE Wt_reach(found \ checked, checked \cup found, successors)

\* a search that never finds a path
Wt_has_path_never(i, j, successors) == FALSE

\* Instance::has_path
Wt_has_path(i, j, successors) == j \in Wt_reach({i}, {}, successors)

\* a test that lets any job precede any other
Wt_check_always(inst, i, predecessors_i, successors_i, j, predecessors_j, successors_j) ==
    TRUE

\* Instance::check_kanet_conditions
Wt_check_kanet_conditions(inst, i, predecessors_i, successors_i, j, predecessors_j, successors_j) ==
    LET p == inst.processing_times
        p_i == p[i]
        d_i == inst.deadlines[i]
        w_i == inst.weights[i]
        p_j == p[j]
        d_j == inst.deadlines[j]
        w_j == inst.weights[j]
        p_predecessors_j == SumOver(predecessors_j, p)
        p_common == SumOver(predecessors_i \cup predecessors_j, p) + p_i + p_j
        k1_common == (w_i - w_j) * p_common
        p_not_successors_i == SumOver(WtJobs(inst) \ successors_i, p)
        p_not_successors_i_or_j == SumOver(WtJobs(inst) \ (successors_i \cup successors_j), p)
        k2_common == (w_j - w_i) * p_not_successors_i
    IN \/ /\ p_i <= p_j
          /\ w_i >= w_j
          /\ \/ w_i * d_i <= Max(w_i * d_j, k1_common + w_j * d_j)
             \/ w_i * d_i <= k1_common + w_j * (p_predecessors_j + p_j)
       \/ /\ p_i <= p_j
          /\ w_i < w_j
          /\ w_j * d_j >= k2_common + w_i * d_i
          /\ w_j * d_j >= k2_common + w_i * (p_not_successors_i_or_j - p_j)
       \/ /\ p_i <= p_j
          /\ w_i < w_j
          /\ w_i * d_i <= (w_i - w_j) * p_not_successors_i + w_j * (p_predecessors_j + p_j)
          /\ w_i * p_i <= (w_i - w_j) * (p_not_successors_i - p_predecessors_j) + w_j * p_j
       \/ /\ w_i >= w_j
          /\ w_j * d_j >= Min(w_j * d_i, (w_j - w_i) * p_common + w_i * d_i)
          /\ w_j * d_j >= w_j * p_not_successors_i - w_i * p_j
       \/ /\ w_i >= w_j
          /\ w_i * d_i <= (w_i - w_j) * p_common + w_j * (p_predecessors_j + p_j)
          /\ w_i * p_j >= w_j * (p_not_successors_i - p_predecessors_j - p_j)
       \/ /\ w_i < w_j
          /\ w_j * d_j >= (w_j - w_i) * p_not_successors_i + w_i * d_i
          /\ w_j * d_j >= w_j * p_not_successors_i - w_i * p_j
       \/ d_j >= p_not_successors_i

RECURSIVE Wt_extract_pass(_, _, _)
\* extract_precedence: one pass of the two loops from the k-th pair (i, j) on, over
\* r = [predecessors, successors, change]
Wt_extract_pass(inst, r, k) ==
    LET n == inst.n
        i == k \div n
        j == k % n
    IN IF k >= n * n THEN r
       ELSE IF /\ i # j
               /\ i \notin r.predecessors[j]
               /\ ~Wt_has_path(j, i, r.successors)
               /\ Wt_check_kanet_conditions(inst, i, r.predecessors[i], r.successors[i],
                                            j, r.predecessors[j], r.successors[j])
            THEN Wt_extract_pass(inst,
                    [predecessors |-> [r.predecessors EXCEPT ![j] = @ \cup {i}],
                     successors |-> [r.successors EXCEPT ![i] = @ \cup {j}],
                     change |-> TRUE], k + 1)
            ELSE Wt_extract_pass(inst, r, k + 1)

RECURSIVE Wt_extract_while(_, _)
\* extract_precedence: the passes are repeated until one changes nothing
Wt_extract_while(inst, r) ==
    LET after == Wt_extract_pass(inst, [r EXCEPT !.change = FALSE], 0) IN
    IF after.change THEN Wt_extract_while(inst, after) ELSE after

\* Instance::extract_precedence
Wt_extract_precedence(inst) ==
    LET r == Wt_extract_while(inst, [predecessors |-> [i \in WtJobs(inst) |-> {}],
                                     successors |-> [i \in WtJobs(inst) |-> {}],
                                     change |-> TRUE])
    IN <<r.predecessors, r.successors>>

\* Wt::from
Wt_from(inst) == [instance |-> inst, predecessors |-> Wt_extract_precedence(inst)[1]]

\* Wt::get_target
Wt_get_target(m) == {}

\* Wt::get_successors: the jobs whose predecessors are all scheduled
Wt_get_successors(m, scheduled) ==
    LET zeroes == Ones(WtJobs(m.instance) \ scheduled)
        ready == SelectSeq(zeroes, LAMBDA i : m.predecessors[i] \subseteq scheduled)
        time == SumOver(scheduled, m.instance.processing_times)
    IN [k \in 1..Len(ready) |->
          <<scheduled \cup {ready[k]},
            m.instance.weights[ready[k]]
               * Max(0, time + m.instance.processing_times[ready[k]]
                           - m.instance.deadlines[ready[k]]),
            ready[k]>>]

\* Wt::get_base_cost
Wt_get_base_cost(m, scheduled) ==
    IF scheduled = WtJobs(m.instance) THEN Some(0) ELSE None

RECURSIVE Wt_validate_from(_, _, _, _, _, _)
\* Instance::validate, the loop from the k-th job of the solution on
Wt_validate_from(inst, solution, k, time, scheduled, recomputed_cost) ==
    IF k > Len(solution) THEN Some(recomputed_cost)
    ELSE LET j == solution[k] IN
         IF j >= inst.n THEN None
         ELSE IF j \in scheduled THEN None
         ELSE Wt_validate_from(inst, solution, k + 1, time + inst.processing_times[j],
                 scheduled \cup {j},
                 recomputed_cost + inst.weights[j]
                    * Max(0, time + inst.processing_times[j] - inst.deadlines[j]))

\* Instance::validate
Wt_validate(inst, solution, c) ==
    /\ Len(solution) = inst.n
    /\ Wt_validate_from(inst, solution, 1, 0, {}, 0) = Some(c)

RECURSIVE Wt_optimum_from(_, _)
\* the least total weighted tardiness still to pay from scheduled over the orders
\* the model generates, None when it generates no complete one
Wt_optimum_from(m, scheduled) ==
    IF IsSome(Wt_get_base_cost(m, scheduled)) THEN Wt_get_base_cost(m, scheduled)
    ELSE LET succs == Wt_get_successors(m, scheduled)
             vals == {succs[k][2] + Unwrap(Wt_optimum_from(m, succs[k][1])) :
                         k \in {l \in 1..Len(succs) : IsSome(Wt_optimum_from(m, succs[l][1]))}}
         IN min_with_option(vals)

RECURSIVE Wt_permutations(_)
\* every order of the jobs of S
Wt_permutations(S) ==
    IF S = {} THEN {<<>>}
    ELSE UNION {{<<j>> \o q : q \in Wt_permutations(S \ {j})} : j \in S}

\* the least total weighted tardiness over all permutations of the jobs
WtBestPermutation(inst) ==
    Unwrap(min_with_option({Unwrap(Wt_validate_from(inst, q, 1, 0, {}, 0)) :
                               q \in Wt_permutations(WtJobs(inst))}))

WtInit ==
    /\ \E n \in 1..WtMaxJobs : instance \in WtInstances(n)
    /\ args = None
    /\ model = None
    /\ state = None
    /\ transitions = <<>>
    /\ cost = 0
    /\ verdict = None
    /\ pc = "read"
    /\ DrvIdle

\* main: read_from_file, Wt::from(instance.clone()) and the target state
WtPrepare ==
    /\ pc = "read"
    /\ DrvIdle
    /\ model' = Wt_from(instance)
    /\ state' = Wt_get_target(model')
    /\ pc' = "search"
    /\ UNCHANGED <<instance, args, transitions, cost, verdict, drvVars>>

\* one transition of the search: a successor of the current state is followed
WtTransition ==
    /\ pc = "search"
    /\ Wt_get_base_cost(model, state) = None
    /\ LET succs == Wt_get_successors(model, state) IN
       \E k \in 1..Len(succs) :
          /\ state' = succs[k][1]
          /\ cost' = cost + succs[k][2]
          /\ transitions' = Append(transitions, succs[k][3])
    /\ UNCHANGED <<instance, args, model, verdict, pc, drvVars>>

\* the path ends in a base case: main validates the schedule
WtValidate ==
    /\ pc = "search"
    /\ IsSome(Wt_get_base_cost(model, state))
    /\ cost' = cost + Unwrap(Wt_get_base_cost(model, state))
    /\ verdict' = Some(Wt_validate(instance, transitions, cost'))
    /\ pc' = "done"
    /\ UNCHANGED <<instance, args, model, state, transitions, drvVars>>

WtNext == WtPrepare \/ WtTransition \/ WtValidate

WtSpec == WtInit /\ [][WtNext]_vars

\* C29: the least total weighted tardiness over the orders the model generates, those
\* that respect the precedences of extract_precedence, is the least over all
\* permutations of the jobs; every complete path is a valid schedule of its cost
C29_KanetPrecedenceKeepsOptimum ==
    /\ (pc = "search" /\ state = {})
          => Wt_optimum_from(model, state) = Some(WtBestPermutation(instance))
    /\ pc = "done" => verdict = Some(TRUE) /\ cost >= WtBestPermutation(instance)

\* a complete path of an instance in which a precedence excludes some order and
\* the optimum is not 0
C29_Witness ==
    /\ pc = "done"
    /\ \E i \in WtJobs(instance) : model.predecessors[i] # {}
    /\ cost = WtBestPermutation(instance)
    /\ cost > 0

(***************************************************************************)
(*          Bin packing: the remaining capacity of the current bin         *)
(***************************************************************************)
\* no item of the instance is heavier than a bin
BpFitting(inst) == \A i \in DOMAIN inst.weights : inst.weights[i] <= inst.capacity

\* the step leaves the remaining capacity of the current bin between 0 and the
\* capacity, and an open-and-pack transition (the one of weight 1) leaves the
\* capacity minus the weight of the item it packed
BpRemainingKept ==
    pc' = "search" =>
        /\ 0 <= state'.remaining /\ state'.remaining <= instance.capacity
        /\ cost' = cost + 1 =>
              state'.remaining
                 = instance.capacity - instance.weights[transitions'[Len(transitions')]]

\* C30 (as stated): in every reachable state of the bin-packing model, for every
\* instance, 0 <= remaining <= capacity, and an open-and-pack transition sets
\* remaining to the capacity minus the weight of the item that opens the bin
C30_RemainingWithinCapacity == [][BpRemainingKept]_vars

\* C30 (amended): the same for the instances without an item heavier than the
\* capacity; an item heavier than the capacity opens a bin with a negative remaining
C30_RemainingWithinCapacityIfItemsFit == [][BpFitting(instance) => BpRemainingKept]_vars

\* a second bin has just been opened by an item that does not fill it
C30_Witness ==
    /\ pc = "search"
    /\ BpFitting(instance)
    /\ cost >= 2 /\ Len(transitions) > cost
    /\ state.remaining = instance.capacity - instance.weights[transitions[Len(transitions)]]
    /\ state.remaining \in 1..(instance.capacity - 1)

(***************************************************************************)
(*            OPTW: optw_rpid against optw_dantzig_rpid                    *)
(***************************************************************************)
OpRpid == [binary |-> "optw_rpid"]
OpDantzig == [binary |-> "optw_dantzig_rpid"]

\* the successors either binary gives to the current state, as sets
OpRpidSuccessors ==
    LET succs == Optw_get_successors(model, OpRpid, state) IN
    {succs[k] : k \in 1..Len(succs)}

OpDantzigSuccessors ==
    LET succs == Optw_get_successors(model, OpDantzig, state) IN
    {succs[k] : k \in 1..Len(succs)}

\* the successor t of the current state is a visit that waits for the opening time
OpWaits(t) ==
    /\ t[3] < model.instance.n
    /\ state.time + model.instance.distances[state.current][t[3]] < model.instance.opening[t[3]]

RECURSIVE Ts_optimum_from(_, _)
\* the least cost still to pay from remaining over the complete paths of the model,
\* None when there is none
Ts_optimum_from(m, remaining) ==
    IF IsSome(Ts_get_base_cost(remaining)) THEN Ts_get_base_cost(remaining)
    ELSE LET succs == Ts_get_successors(m, remaining)
             vals == {succs[k][2] + Unwrap(Ts_optimum_from(m, succs[k][1])) :
                         k \in {l \in 1..Len(succs) : IsSome(Ts_optimum_from(m, succs[l][1]))}}
         IN min_with_option(vals)

RECURSIVE TsOrders(_)
\* every order of the scenes of S
TsOrders(S) ==
    IF S = {} THEN {<<>>}
    ELSE UNION {{<<i>> \o q : q \in TsOrders(S \ {i})} : i \in S}

\* the least cost, as Instance::validate recomputes it, over all orders of the scenes
TsBestOrder(inst) ==
    Unwrap(min_with_option({Ts_validate_from(inst, q, {}, {}, 0)[2] : q \in TsOrders(TsScenes(inst))}))

\* C32: on the simplified instance, the least accumulated cost over the complete
\* paths of the model is the least cost over all orders of the scenes, and every
\* reachable state with a remaining scene has a successor
C32_TalentSchedulingOptimumIsBestOrder ==
    pc = "search" =>
        /\ state # {} => Len(Ts_get_successors(model, state)) >= 1
        /\ transitions = <<>> =>
              Ts_optimum_from(model, state) = Some(TsBestOrder(model.simplified_instance))

\* a state of a simplified instance with three scenes at which the subsumption rule
\* skips a scene
C32_Witness ==
    /\ pc = "search"
    /\ Cardinality(TsScenes(model.simplified_instance)) >= 3
    /\ state # {}
    /\ Len(Ts_get_successors(model, state)) < Cardinality(state)
    /\ Len(Ts_get_successors(model, state)) >= 2

(***************************************************************************)
(*            SALBP-1: progress of the open-station transition             *)
(***************************************************************************)
RECURSIVE Salbp1_later(_, _, _)
\* the states the search generates from s within k transitions, s itself left out
\* unless a transition leads back to it
Salbp1_later(inst, s, k) ==
    IF k = 0 \/ IsSome(Salbp1_get_base_cost(s)) THEN {}
    ELSE LET succs == Salbp1_get_successors(inst, s)
             next == { succs[i][1] : i \in 1..Len(succs) }
         IN next \cup UNION { Salbp1_later(inst, t, k - 1) : t \in next }

RECURSIVE SbOrdered(_, _)
\* the tasks of left can be put in an order that respects the predecessors
SbOrdered(inst, left) ==
    IF left = {} THEN TRUE
    ELSE LET free == { i \in left : inst.predecessors[i] \cap left = {} }
         IN free # {} /\ SbOrdered(inst, left \ free)

\* no task is longer than the cycle and the predecessors have no cycle
SbFeasible(inst) ==
    /\ \A i \in DOMAIN inst.task_times : inst.task_times[i] <= inst.cycle_time
    /\ SbOrdered(inst, DOMAIN inst.task_times)

\* the path has at most 2n transitions; a station opened in the current state gives
\* another state, in which a task can be assigned; no transition sequence leads back
\* to the current state
SbProgress ==
    /\ Len(transitions) <= 2 * SbN(instance)
    /\ Len(transitions) = 2 * SbN(instance) => IsSome(Salbp1_get_base_cost(state))
    /\ (Salbp1_get_base_cost(state) = None /\ Salbp1_scheduled(model, state) = <<>>) =>
           LET opened == Salbp1_open_station(model, state)[1] IN
           /\ opened # state
           /\ Salbp1_scheduled(model, opened) # <<>>
    /\ state \notin Salbp1_later(model, state, 2 * SbMaxTasks + 1)

\* C33: in the SALBP-1 model, for every instance, an open-station transition leads to
\* a state different from the one it leaves and is followed by the assignment of a
\* task, so every path from the target has at most 2n transitions and the reachable
\* state graph has no cycle.
C33_SalbpOpenStationProgresses ==
    pc = "search" => SbProgress

\* C33, for the instances in which every task fits in an empty station and the
\* predecessors have no cycle
C33_SalbpOpenStationProgressesIfFeasible ==
    (pc = "search" /\ SbFeasible(instance)) => SbProgress

\* three tasks with a precedence, each in a station of its own: the path has 2n
\* transitions
C33_Witness ==
    /\ pc = "search"
    /\ SbFeasible(instance)
    /\ SbN(instance) = 3
    /\ \E i \in DOMAIN instance.predecessors : instance.predecessors[i] # {}
    /\ Len(transitions) = 2 * SbN(instance)
    /\ SbOpened = 3

(***************************************************************************)
(*   Bin packing: the dual bound (bin_packing_rpid.rs, bin_packing_dypdl)  *)
(***************************************************************************)
\* the ceiling of a / b for b > 0
BpCeil(a, b) == -((-a) \div b)

\* lb1: the unpacked weight that does not fit the open bin, in bins, rounded up
Bp_lb1(inst, s) ==
    BpCeil(SumOver(s.unpacked, inst.weights) - s.remaining, inst.capacity)

\* lb2 before the reduction: the items above half the capacity, and half the items
\* of exactly half the capacity, rounded up
Bp_lb2(inst, s) ==
    Cardinality({ i \in s.unpacked : 2 * inst.weights[i] > inst.capacity })
    + BpCeil(Cardinality({ i \in s.unpacked : 2 * inst.weights[i] = inst.capacity }), 2)

\* lb3_weight, in ten-thousandths: 1.0, 0.6666, 0.5, 0.3333 or 0.0
Bp_lb3_weight(inst, i) ==
    LET x == inst.weights[i] IN
    IF 3 * x > 2 * inst.capacity THEN 10000
    ELSE IF 3 * x = 2 * inst.capacity THEN 6666
    ELSE IF 3 * x > inst.capacity THEN 5000
    ELSE IF 3 * x = inst.capacity THEN 3333
    ELSE 0

\* lb3 before the reduction: the sum of lb3_weight over the unpacked items, rounded up
Bp_lb3(inst, s) ==
    BpCeil(SumOver(s.unpacked, [i \in DOMAIN inst.weights |-> Bp_lb3_weight(inst, i)]), 10000)

\* a dual bound whose lb2 and lb3 are never reduced for the open bin
Bp_get_dual_bound_unreduced(inst, s) ==
    Some(Max(Max(Bp_lb1(inst, s), Bp_lb2(inst, s)), Bp_lb3(inst, s)))

\* BinPacking::get_dual_bound
Bp_get_dual_bound(inst, s) ==
    LET lb1 == Bp_lb1(inst, s)
        lb2 == IF 2 * s.remaining >= inst.capacity
               THEN Bp_lb2(inst, s) - 1 ELSE Bp_lb2(inst, s)
        lb3 == IF 3 * s.remaining >= inst.capacity
               THEN Bp_lb3(inst, s) - 1 ELSE Bp_lb3(inst, s)
    IN Some(Max(Max(lb1, lb2), lb3))

\* C34: for every bin-packing instance with weights between 1 and the capacity and
\* every reachable state, the dual bound max(lb1, lb2, lb3), lb2 and lb3 reduced by
\* one when the open bin has at least half, respectively a third, of the capacity
\* left, is at most the least number of bins opened on a complete path from the state.
C34_BinPackingDualBoundAdmissible ==
    (pc = "search" /\ BpProper(instance)) =>
        LET optimum == Bp_optimum_from(instance, state) IN
        IsSome(optimum) => Unwrap(Bp_get_dual_bound(instance, state)) <= Unwrap(optimum)

\* a state whose open bin is at least half empty, where the reductions are needed
\* (without them the bound would be above the bins still to open) and the reduced
\* bound meets the least number of bins still to open
C34_Witness ==
    /\ pc = "search"
    /\ BpProper(instance)
    /\ 2 * state.remaining >= instance.capacity
    /\ Bp_optimum_from(instance, state) = Bp_get_dual_bound(instance, state)
    /\ Unwrap(Bp_get_dual_bound(instance, state)) >= 1
    /\ Bp_lb2(instance, state) > Unwrap(Bp_get_dual_bound(instance, state))
    /\ Bp_lb3(instance, state) > Unwrap(Bp_get_dual_bound(instance, state))

(***************************************************************************)
(*          Weighted tardiness: the precedence relation is acyclic         *)
(***************************************************************************)
RECURSIVE WtOrdered(_, _)
\* the jobs of left can be put in an order that respects the predecessors
WtOrdered(predecessors, left) ==
    IF left = {} THEN TRUE
    ELSE LET free == { i \in left : predecessors[i] \cap left = {} }
         IN free # {} /\ WtOrdered(predecessors, left \ free)

\* the unscheduled jobs whose predecessors are all scheduled
WtReady(m, scheduled) ==
    { i \in WtJobs(m.instance) \ scheduled : m.predecessors[i] \subseteq scheduled }

\* C35: for every weighted-tardiness instance, the precedence relation returned by
\* extract_precedence has no cycle, so in every reachable state with an unscheduled
\* job some unscheduled job has all its predecessors scheduled (get_successors
\* returns a successor), and a state with every job scheduled is reachable from
\* every reachable state.
C35_KanetPrecedenceAcyclic ==
    pc = "search" =>
        /\ WtOrdered(model.predecessors, WtJobs(instance))
        /\ \A i \in WtJobs(instance) :
              ~Wt_has_path(i, i, Wt_extract_precedence(instance)[2])
        /\ state # WtJobs(instance) =>
              /\ WtReady(model, state) # {}
              /\ Len(Wt_get_successors(model, state)) = Cardinality(WtReady(model, state))
        /\ IsSome(Wt_optimum_from(model, state))

\* the precedence relation is a chain of three jobs, the first is scheduled, the
\* second is the only successor, the third waits for it
C35_Witness ==
    /\ pc = "search"
    /\ instance.n = 3
    /\ \E i, j, k \in WtJobs(instance) :
          /\ i \in model.predecessors[j]
          /\ j \in model.predecessors[k]
          /\ state = {i}
          /\ WtReady(model, state) = {j}

(***************************************************************************)
(*              MDKP (mdkp_rpid.rs, mdkp_dantzig_rpid.rs, lib.rs)          *)
(***************************************************************************)
\* bounds of the enumerated MDKP instances
MdMaxItems == 3
MdMaxDims == 2
MdMaxWeight == 2
MdMaxProfit == 2

\* Instance::read_from_file: n items and m dimensions; a profit for every item, a
\* weight for every dimension and item, a capacity for every dimension
MdInstances(n, m) ==
    [profits : [0..(n - 1) -> 1..MdMaxProfit],
     weights : [0..(m - 1) -> [0..(n - 1) -> 0..MdMaxWeight]],
     capacities : [0..(m - 1) -> 1..MdMaxWeight]]

\* self.instance.capacities.len()
MdDims(inst) == DOMAIN inst.capacities

\* Mdkp::get_target
Mdkp_get_target(inst) == [current |-> 0, remaining |-> inst.capacities]

\* an undo that leaves the tentative decrements in place
Mdkp_undo_nothing(remaining, old, j) == remaining

\* get_successors: remaining[..j] is copied back from state.remaining[..j]
Mdkp_undo(remaining, old, j) ==
    [k \in DOMAIN remaining |-> IF k < j THEN old[k] ELSE remaining[k]]

RECURSIVE Mdkp_try(_, _, _, _)
\* get_successors: the loop over the dimensions from j on, remaining being the local
\* vector with the decrements made so far; <<fits, remaining>>
Mdkp_try(inst, s, remaining, j) ==
    IF j \notin MdDims(inst) THEN <<TRUE, remaining>>
    ELSE IF inst.weights[j][s.current] > s.remaining[j]
         THEN <<FALSE, Mdkp_undo(remaining, s.remaining, j)>>
         ELSE Mdkp_try(inst, s,
                       [remaining EXCEPT ![j] = @ - inst.weights[j][s.current]], j + 1)

\* Mdkp::get_successors: the sequence of <<successor, weight, label>>, label 0 for
\* packing item current and 1 for ignoring it
Mdkp_get_successors(inst, s) ==
    LET r == Mdkp_try(inst, s, s.remaining, 0) IN
    IF ~r[1]
    THEN << <<[current |-> s.current + 1, remaining |-> r[2]], 0, 1>> >>
    ELSE << <<[current |-> s.current + 1, remaining |-> r[2]], inst.profits[s.current], 0>>,
            <<[current |-> s.current + 1, remaining |-> s.remaining], 0, 1>> >>

\* Mdkp::get_base_cost
Mdkp_get_base_cost(inst, s) ==
    IF s.current = Cardinality(DOMAIN inst.profits) THEN Some(0) ELSE None

\* main: the positions of the transitions labelled 0
Mdkp_packed_items(labels) ==
    { i \in 0..(Len(labels) - 1) : labels[i + 1] = 0 }

\* Instance::validate
Mdkp_validate(inst, solution, profit) ==
    /\ \A j \in MdDims(inst) :
          SumOver(solution, inst.weights[j]) <= inst.capacities[j]
    /\ SumOver(solution, inst.profits) = profit

MdInit ==
    /\ \E n \in 1..MdMaxItems, m \in 1..MdMaxDims : instance \in MdInstances(n, m)
    /\ args = None
    /\ model = None
    /\ state = None
    /\ transitions = <<>>
    /\ cost = 0
    /\ verdict = None
    /\ pc = "read"
    /\ DrvIdle

\* main: read_from_file, Mdkp::new and the target state
MdPrepare ==
    /\ pc = "read"
    /\ DrvIdle
    /\ model' = instance
    /\ state' = Mdkp_get_target(instance)
    /\ pc' = "search"
    /\ UNCHANGED <<instance, args, transitions, cost, verdict, drvVars>>

\* one transition of the search: a successor of the current state is followed
MdTransition ==
    /\ pc = "search"
    /\ Mdkp_get_base_cost(model, state) = None
    /\ LET succs == Mdkp_get_successors(model, state) IN
       \E k \in 1..Len(succs) :
          /\ state' = succs[k][1]
          /\ cost' = cost + succs[k][2]
          /\ transitions' = Append(transitions, succs[k][3])
    /\ UNCHANGED <<instance, args, model, verdict, pc, drvVars>>

\* the path ends in a base case: main validates the packed items
MdValidate ==
    /\ pc = "search"
    /\ IsSome(Mdkp_get_base_cost(model, state))
    /\ cost' = cost + Unwrap(Mdkp_get_base_cost(model, state))
    /\ verdict' = Some(Mdkp_validate(instance, Mdkp_packed_items(transitions), cost'))
    /\ pc' = "done"
    /\ UNCHANGED <<instance, args, model, state, transitions, drvVars>>

MdNext == MdPrepare \/ MdTransition \/ MdValidate

MdSpec == MdInit /\ [][MdNext]_vars

\* the item of the state fits in every dimension
MdFits(inst, s) ==
    \A j \in MdDims(inst) : inst.weights[j][s.current] <= s.remaining[j]

\* the successors with the given label
MdLabelled(succs, label) ==
    { succs[k] : k \in { k \in 1..Len(succs) : succs[k][3] = label } }

\* C36: in the MDKP model, for every state, the ignore successor has the remaining
\* capacity of the state in every dimension (the tentative decrements are undone when
\* a later dimension fails), and a pack successor is generated exactly when the item
\* fits in every dimension, each dimension's remaining capacity being reduced by the
\* item's weight in that dimension and never negative; the validator accepts the
\* items packed on a complete path.
C36_MdkpSuccessorsKeepCapacities ==
    /\ (pc = "search" /\ Mdkp_get_base_cost(model, state) = None) =>
          LET succs == Mdkp_get_successors(model, state) IN
          /\ MdLabelled(succs, 1)
                = { <<[current |-> state.current + 1, remaining |-> state.remaining], 0, 1>> }
          /\ MdLabelled(succs, 0) # {} <=> MdFits(model, state)
          /\ Len(succs) = IF MdFits(model, state) THEN 2 ELSE 1
          /\ \A t \in MdLabelled(succs, 0) :
                /\ t[1].current = state.current + 1
                /\ t[2] = model.profits[state.current]
                /\ \A j \in MdDims(model) :
                      /\ t[1].remaining[j]
                            = state.remaining[j] - model.weights[j][state.current]
                      /\ t[1].remaining[j] >= 0
    /\ pc = "done" => verdict = Some(TRUE)

\* after an item was packed, the next item fits in the first dimension with a
\* positive weight and fails in the second: the decrement of the first is undone
C36_Witness ==
    /\ pc = "search"
    /\ Mdkp_get_base_cost(model, state) = None
    /\ 0 \in Mdkp_packed_items(transitions)
    /\ MdDims(model) = {0, 1}
    /\ model.weights[0][state.current] >= 1
    /\ model.weights[0][state.current] <= state.remaining[0]
    /\ model.weights[1][state.current] > state.remaining[1]

====
